---- MODULE Spec2Model ----
(***************************************************************************)
(* Request authentication and request governance of the todo API:         *)
(*   - Token Service          src/lib/jwt.js                               *)
(*   - Edge Gate / Verifier   src/unnamed/part_000 (Next.js middleware)    *)
(*   - Authentication Gate    src/unnamed/part_005 (withAuth)              *)
(*   - refresh endpoint       src/unnamed/part_002 (refreshHandler)        *)
(*   - Rate Governor          src/unnamed/part_004 (withRateLimit,         *)
(*                            createRateLimit)                             *)
(*                                                                         *)
(* Four specifications share the module.  SpecGate is the token and gate   *)
(* machine (its clock unit is the second, as in the exp claim); SpecRate   *)
(* is the governor machine (its clock unit is the millisecond tick of      *)
(* Date.now()); SpecRoute serves requests through the route exports;       *)
(* SpecTask serves /api/tasks/[id] with its handlers and the task store.   *)
(***************************************************************************)
EXTENDS Integers, FiniteSets, Sequences, TLC

VARIABLES
    now,        \* the clock (Date.now())
    env,        \* process.env: JWT_SECRET, JWT_REFRESH_SECRET
    loaded,     \* outcome of evaluating the jwt.js module: "pending", "ok", "failed"
    users,      \* identity store: id -> stored role, or None when there is no record
    tasks,      \* task store: id -> the task record, or NoTask when there is no record
    cred,       \* the credential a client presents (authorization header / body token)
    res,        \* outcome of the last operation applied to cred
    nodeEnv,    \* process.env.NODE_ENV
    requestCounts,        \* the default governor's store: ip -> entry
    customRequestCounts,  \* the store of a governor built by createRateLimit
    registerRequestCounts, \* the store of a second governor built by createRateLimit
    reqs        \* the requests sent through a governor, in order of arrival

gateVars == <<env, loaded, users, tasks, cred, res>>

----------------------------------------------------------------------------
(* Bounds *)

\* last instant of the clock of the token and gate machine
MaxNow == 2


\* number of requests sent through the governors
NumReqs == 3

----------------------------------------------------------------------------
(* Values *)

\* JS undefined / null: an unset variable, an absent claim, a missing record
None == "none"

UserIds == {"u1"}
Roles == {"Admin", "User"}

EmailOf(id) == IF id = "u1" THEN "u1@mail" ELSE "other@mail"

\* name, createdAt and updatedAt of a record do not take part in any decision
Identity(id, role) == [id |-> id, email |-> EmailOf(id), role |-> role]

Identities == {Identity(id, role) : id \in UserIds, role \in Roles}

\* expiresIn of the two kinds, in clock units (JWT_ACCESS_EXPIRES_IN < JWT_REFRESH_EXPIRES_IN)
JWT_ACCESS_EXPIRES_IN == 1
JWT_REFRESH_EXPIRES_IN == 2

ISSUER == "todo-api"
AUDIENCE == "todo-app"

(***************************************************************************)
(* A compact JWS.  key names what the signature was made with: the value   *)
(* of a secret, or "bad" for a signature that matches no secret (a         *)
(* tampered token).  form "jwt" is a well-formed three-part token.  exp is *)
(* the set of values of the exp claim: empty when the claim is absent.     *)
(***************************************************************************)
Jwt(key, type, iss, aud, exp, id, email, role, roles) ==
    [form |-> "jwt", key |-> key, type |-> type, iss |-> iss, aud |-> aud,
     exp |-> exp, id |-> id, email |-> email, role |-> role, roles |-> roles]

\* jwt.sign(payload, secret, {expiresIn, issuer, audience}): exp = iat + expiresIn
JwtSign(payload, secret, expiresIn) ==
    Jwt(secret, payload.type, ISSUER, AUDIENCE, {now + expiresIn},
        payload.id, payload.email, payload.role, None)

DropEmailGenerateAccessToken(payload) ==
    JwtSign([id |-> payload.id, email |-> None, role |-> payload.role,
             type |-> "access"], env.JWT_SECRET, JWT_ACCESS_EXPIRES_IN)

GenerateAccessToken(payload) ==
    JwtSign([id |-> payload.id, email |-> payload.email, role |-> payload.role,
             type |-> "access"], env.JWT_SECRET, JWT_ACCESS_EXPIRES_IN)

GenerateRefreshToken(payload) ==
    JwtSign([id |-> payload.id, email |-> None, role |-> None,
             type |-> "refresh"], env.JWT_REFRESH_SECRET, JWT_REFRESH_EXPIRES_IN)

GenerateTokens(payload) ==
    [accessToken |-> GenerateAccessToken(payload),
     refreshToken |-> GenerateRefreshToken([id |-> payload.id])]

----------------------------------------------------------------------------
(* Token Service: verification (src/lib/jwt.js) *)

\* a value thrown by a callee: the error's name and message
Thrown(name, message) == [ok |-> FALSE, name |-> name, message |-> message]
Returned(payload) == [ok |-> TRUE, payload |-> payload]

(***************************************************************************)
(* jwt.verify(token, secret, {issuer, audience}) of jsonwebtoken, in the   *)
(* order the library checks: shape, signature, exp, audience, issuer.      *)
(***************************************************************************)
JwtVerify(token, secret) ==
    IF token.form # "jwt" THEN Thrown("JsonWebTokenError", "jwt malformed")
    ELSE IF token.key # secret THEN Thrown("JsonWebTokenError", "invalid signature")
    ELSE IF \E exp \in token.exp : now >= exp THEN Thrown("TokenExpiredError", "jwt expired")
    ELSE IF token.aud # AUDIENCE THEN Thrown("JsonWebTokenError", "jwt audience invalid")
    ELSE IF token.iss # ISSUER THEN Thrown("JsonWebTokenError", "jwt issuer invalid")
    ELSE Returned(token)

\* the try block of a verify function: the library call, then the kind check
VerifyTry(token, secret, kind) ==
    LET decoded == JwtVerify(token, secret) IN
    IF ~decoded.ok THEN decoded
    ELSE IF decoded.payload.type # kind THEN Thrown("Error", "Invalid token type")
    ELSE decoded

\* the catch block: the two library errors are renamed, anything else is rethrown
VerifyCatch(r, expiredMessage, invalidMessage) ==
    IF r.ok THEN r
    ELSE IF r.name = "TokenExpiredError" THEN Thrown("Error", expiredMessage)
    ELSE IF r.name = "JsonWebTokenError" THEN Thrown("Error", invalidMessage)
    ELSE r

VerifyAccessToken(token) ==
    VerifyCatch(VerifyTry(token, env.JWT_SECRET, "access"), "Token has expired", "Invalid token")

VerifyRefreshToken(token) ==
    VerifyCatch(VerifyTry(token, env.JWT_REFRESH_SECRET, "refresh"),
                "Refresh token has expired", "Invalid refresh token")

\* what follows 'Bearer ' in a header may be a token, the empty string, or not a JWS
NoToken == [form |-> "null"]
EmptyToken == [form |-> "empty"]
MalformedToken == [form |-> "malformed"]

\* !token of JavaScript: null and the empty string are falsy
Falsy(token) == token.form \in {"null", "empty"}

\* extractTokenFromHeader: null unless the header starts with 'Bearer '
ExtractTokenFromHeader(authHeader) ==
    IF authHeader.scheme # "Bearer" THEN NoToken ELSE authHeader.token

----------------------------------------------------------------------------
(* Edge Verifier (src/unnamed/part_000) *)

(***************************************************************************)
(* jwtVerify(token, secret) of jose with no options: shape, signature and  *)
(* exp are checked; issuer, audience and the type claim are not.           *)
(***************************************************************************)
JoseJwtVerify(token, secret) ==
    IF token.form # "jwt" THEN Thrown("JWSInvalid", "Invalid Compact JWS")
    ELSE IF token.key # secret
        THEN Thrown("JWSSignatureVerificationFailed", "signature verification failed")
    ELSE IF \E exp \in token.exp : exp <= now
        THEN Thrown("JWTExpired", "\"exp\" claim timestamp check failed")
    ELSE Returned(token)

VerifyTokenEdge(token) == JoseJwtVerify(token, env.JWT_SECRET)

----------------------------------------------------------------------------
(* Edge Gate: route classification (src/unnamed/part_000) *)

(***************************************************************************)
(* A pathname is the sequence of its segments: "/api/tasks/42" is          *)
(* <<"api", "tasks", "42">> and "/api/tasks/" is <<"api", "tasks", "">>.   *)
(* A pattern is [segs, wild]: wild says the pattern ends in "/.*".         *)
(***************************************************************************)
Exact(segs) == [segs |-> segs, wild |-> FALSE]
Wild(segs) == [segs |-> segs, wild |-> TRUE]

IsPrefix(p, q) == Len(p) <= Len(q) /\ SubSeq(q, 1, Len(p)) = p

ROUTE_CONFIG ==
    [public |-> {Exact(<<"api", "auth", "register">>),
                 Exact(<<"api", "auth", "login">>),
                 Exact(<<"api", "auth", "refresh">>)},
     protected |-> {Exact(<<"api", "tasks">>), Wild(<<"api", "tasks">>)},
     adminOnly |-> {Exact(<<"api", "users">>), Wild(<<"api", "users">>)}]

\* new RegExp(`^${pattern}$`) for a pattern "prefix/.*": the prefix, a slash, anything
MatchesPattern(path, patterns) ==
    \E pattern \in patterns :
        IF pattern.wild
        THEN IsPrefix(pattern.segs, path) /\ Len(path) > Len(pattern.segs)
        ELSE path = pattern.segs

GetRouteType(path) ==
    IF MatchesPattern(path, ROUTE_CONFIG.public) THEN "public"
    ELSE IF MatchesPattern(path, ROUTE_CONFIG.adminOnly) THEN "adminOnly"
    ELSE IF MatchesPattern(path, ROUTE_CONFIG.protected) THEN "protected"
    ELSE "public"

\* config.matcher '/api/:path*': the middleware runs on /api and everything below it
MatcherMatches(path) == IsPrefix(<<"api">>, path)

\* pathname.startsWith('/api/tasks/')
StartsWithApiTasks(path) == IsPrefix(<<"api", "tasks">>, path) /\ Len(path) > 2

\* a || b of JavaScript on claim values (an absent claim is falsy)
Or(a, b) == IF a # None THEN a ELSE b

\* the identity the gate derives from the verified payload
Decoded(payload) ==
    [id |-> payload.id,
     email |-> payload.email,
     role |-> Or(Or(payload.role, payload.roles), "User")]

----------------------------------------------------------------------------
(* Responses (src/unnamed/part_004, response.js part) *)

\* errorResponse(error, code): the envelope {success: false, error, code}, status code
ErrorResponse(error, code) ==
    [kind |-> "response", status |-> code,
     body |-> [success |-> FALSE, error |-> error, code |-> code]]

UnauthorizedResponse(message) == ErrorResponse(message, 401)
ForbiddenResponse(message) == ErrorResponse(message, 403)
BadRequestResponse(message) == ErrorResponse(message, 400)

\* successResponse(data, message): status 200
SuccessResponse(data, message) ==
    [kind |-> "response", status |-> 200,
     body |-> [success |-> TRUE, message |-> message, data |-> data]]

\* a failure raised to the caller instead of a response
Raised(message) == [kind |-> "raised", error |-> message]

----------------------------------------------------------------------------
(* Edge Gate: middleware (src/unnamed/part_000) *)

\* Headers.set on a copy of the headers: a name already present is overwritten
SetHeaders(headers, set) ==
    [n \in DOMAIN headers \cup DOMAIN set |-> IF n \in DOMAIN set THEN set[n] ELSE headers[n]]

(***************************************************************************)
(* NextResponse.next(): the request goes on to the route.  set are the     *)
(* headers the gate wrote, headers the identity headers of the request as  *)
(* the route receives it: those the client sent (request.headers.supplied) *)
(* with the ones the gate wrote set over them.                             *)
(***************************************************************************)
Forward(request, set) ==
    [kind |-> "next", set |-> set, headers |-> SetHeaders(request.headers.supplied, set)]

\* requestHeaders.set for each truthy field of decoded
IdentityHeaders(decoded) ==
    [n \in {h \in {"x-user-id", "x-user-email", "x-user-role"} :
              CASE h = "x-user-id" -> decoded.id # None
                [] h = "x-user-email" -> decoded.email # None
                [] OTHER -> decoded.role # None}
     |-> CASE n = "x-user-id" -> decoded.id
           [] n = "x-user-email" -> decoded.email
           [] OTHER -> decoded.role]

NoHeaders == [n \in {} |-> None]

IsResponse(out, status) == out.kind = "response" /\ out.status = status

NoDeleteRuleMiddleware(request) ==
    LET routeType == GetRouteType(request.path)
        authHeader == request.headers.authorization
        payload == VerifyTokenEdge(authHeader.token)
        decoded == Decoded(payload.payload)
    IN  IF routeType = "public" THEN Forward(request, NoHeaders)
        ELSE IF authHeader.scheme # "Bearer"
            THEN ErrorResponse("No token provided. Please login.", 401)
        ELSE IF ~payload.ok
            THEN ErrorResponse("Invalid or expired token. Please login again.", 401)
        ELSE IF routeType = "adminOnly" /\ decoded.role # "Admin"
            THEN ErrorResponse("Access denied. Admin role required.", 403)
        ELSE Forward(request, IdentityHeaders(decoded))

Middleware(request) ==
    LET routeType == GetRouteType(request.path)
        authHeader == request.headers.authorization
        payload == VerifyTokenEdge(authHeader.token)
        decoded == Decoded(payload.payload)
    IN  IF routeType = "public" THEN Forward(request, NoHeaders)
        ELSE IF authHeader.scheme # "Bearer"
            THEN ErrorResponse("No token provided. Please login.", 401)
        ELSE IF ~payload.ok
            THEN ErrorResponse("Invalid or expired token. Please login again.", 401)
        ELSE IF routeType = "adminOnly" /\ decoded.role # "Admin"
            THEN ErrorResponse("Access denied. Admin role required.", 403)
        ELSE IF request.method = "DELETE" /\ StartsWithApiTasks(request.path)
                /\ decoded.role # "Admin"
            THEN ErrorResponse("Access denied. Only Admin can delete tasks.", 403)
        ELSE Forward(request, IdentityHeaders(decoded))

----------------------------------------------------------------------------
(* Authentication Gate: withAuth (src/unnamed/part_005) *)

\* prisma.user.findUnique({where: {id}}): the record, or null
NoUser == [id |-> None]

FindUnique(id) == IF users[id] = None THEN NoUser ELSE Identity(id, users[id])

\* prisma.task: a record {id, userId, title}, NoTask for null
TaskIds == {"t1"}
NoTask == [userId |-> None, title |-> None]
Task(userId, title) == [userId |-> userId, title |-> title]

\* options = {} has no roles; otherwise options.roles is the list given
NoOptions == [given |-> FALSE, roles |-> <<>>]
WithRoles(roles) == [given |-> TRUE, roles |-> roles]

\* `Access denied. Required role: ${options.roles.join(' or ')}`
RequiredRoleMessage(roles) ==
    IF roles = <<"Admin">> THEN "Access denied. Required role: Admin"
    ELSE IF roles = <<"User">> THEN "Access denied. Required role: User"
    ELSE IF roles = <<"User", "Admin">> THEN "Access denied. Required role: User or Admin"
    ELSE "Access denied. Required role: (other)"

(***************************************************************************)
(* What the wrapped handler does when invoked is an input: it returns a    *)
(* response ("returns"), throws before returning a promise ("throws"), or  *)
(* returns a promise that rejects ("rejects").  store says whether the     *)
(* identity lookup answers ("answers") or fails ("fails").                 *)
(* The outcome is [out, invoked, user]: what the caller gets, whether the  *)
(* handler was invoked, and the identity attached to the request.          *)
(***************************************************************************)
Gate(out, invoked, user) == [out |-> out, invoked |-> invoked, user |-> user]

HandlerOutcome(handler) ==
    IF handler = "returns" THEN SuccessResponse([handled |-> TRUE], "handled")
    ELSE Raised("handler failure")

FailOpenWithAuth(request, handler, options, store) ==
    LET token == ExtractTokenFromHeader(request.headers.authorization)
        decoded == VerifyAccessToken(token)
        user == FindUnique(decoded.payload.id)
    IN  IF Falsy(token)
            THEN Gate(UnauthorizedResponse("No token provided. Please login."), FALSE, NoUser)
        ELSE IF ~decoded.ok
            THEN Gate(UnauthorizedResponse(decoded.message), FALSE, NoUser)
        ELSE IF store = "fails"
            THEN Gate(HandlerOutcome(handler), TRUE, NoUser)
        ELSE IF user = NoUser
            THEN Gate(UnauthorizedResponse("User not found. Please login again."), FALSE, NoUser)
        ELSE IF options.given /\ Len(options.roles) > 0
                /\ ~(\E i \in 1..Len(options.roles) : options.roles[i] = user.role)
            THEN Gate(ForbiddenResponse(RequiredRoleMessage(options.roles)), FALSE, NoUser)
        ELSE IF handler = "throws"
            THEN Gate(UnauthorizedResponse("Authentication failed"), TRUE, user)
        ELSE Gate(HandlerOutcome(handler), TRUE, user)

RoleFirstWithAuth(request, handler, options, store) ==
    LET token == ExtractTokenFromHeader(request.headers.authorization)
        decoded == VerifyAccessToken(token)
        user == FindUnique(decoded.payload.id)
    IN  IF Falsy(token)
            THEN Gate(UnauthorizedResponse("No token provided. Please login."), FALSE, NoUser)
        ELSE IF ~decoded.ok
            THEN Gate(UnauthorizedResponse(decoded.message), FALSE, NoUser)
        ELSE IF store = "fails"
            THEN Gate(UnauthorizedResponse("Authentication failed"), FALSE, NoUser)
        ELSE IF options.given /\ Len(options.roles) > 0
                /\ ~(\E i \in 1..Len(options.roles) :
                        user # NoUser /\ options.roles[i] = user.role)
            THEN Gate(ForbiddenResponse(RequiredRoleMessage(options.roles)), FALSE, NoUser)
        ELSE IF user = NoUser
            THEN Gate(UnauthorizedResponse("User not found. Please login again."), FALSE, NoUser)
        ELSE IF handler = "throws"
            THEN Gate(UnauthorizedResponse("Authentication failed"), TRUE, user)
        ELSE Gate(HandlerOutcome(handler), TRUE, user)

TokenRoleWithAuth(request, handler, options, store) ==
    LET token == ExtractTokenFromHeader(request.headers.authorization)
        decoded == VerifyAccessToken(token)
        user == FindUnique(decoded.payload.id)
    IN  IF Falsy(token)
            THEN Gate(UnauthorizedResponse("No token provided. Please login."), FALSE, NoUser)
        ELSE IF ~decoded.ok
            THEN Gate(UnauthorizedResponse(decoded.message), FALSE, NoUser)
        ELSE IF store = "fails"
            THEN Gate(UnauthorizedResponse("Authentication failed"), FALSE, NoUser)
        ELSE IF user = NoUser
            THEN Gate(UnauthorizedResponse("User not found. Please login again."), FALSE, NoUser)
        ELSE IF options.given /\ Len(options.roles) > 0
                /\ ~(\E i \in 1..Len(options.roles) : options.roles[i] = decoded.payload.role)
            THEN Gate(ForbiddenResponse(RequiredRoleMessage(options.roles)), FALSE, NoUser)
        ELSE IF handler = "throws"
            THEN Gate(UnauthorizedResponse("Authentication failed"), TRUE, user)
        ELSE Gate(HandlerOutcome(handler), TRUE, user)

\* withAuth(request, handler, options)
WithAuth(request, handler, options, store) ==
    LET token == ExtractTokenFromHeader(request.headers.authorization)
        decoded == VerifyAccessToken(token)
        user == FindUnique(decoded.payload.id)
    IN  IF Falsy(token)
            THEN Gate(UnauthorizedResponse("No token provided. Please login."), FALSE, NoUser)
        ELSE IF ~decoded.ok
            THEN Gate(UnauthorizedResponse(decoded.message), FALSE, NoUser)
        ELSE IF store = "fails"
            THEN Gate(UnauthorizedResponse("Authentication failed"), FALSE, NoUser)
        ELSE IF user = NoUser
            THEN Gate(UnauthorizedResponse("User not found. Please login again."), FALSE, NoUser)
        ELSE IF options.given /\ Len(options.roles) > 0
                /\ ~(\E i \in 1..Len(options.roles) : options.roles[i] = user.role)
            THEN Gate(ForbiddenResponse(RequiredRoleMessage(options.roles)), FALSE, NoUser)
        ELSE IF handler = "throws"
            THEN Gate(UnauthorizedResponse("Authentication failed"), TRUE, user)
        ELSE Gate(HandlerOutcome(handler), TRUE, user)

RequireAdmin(request, handler, store) ==
    WithAuth(request, handler, WithRoles(<<"Admin">>), store)

RequireUser(request, handler, store) ==
    WithAuth(request, handler, WithRoles(<<"User", "Admin">>), store)

\* getUserFromRequest(request): the record, or null on any failure
GetUserFromRequest(request, store) ==
    LET token == ExtractTokenFromHeader(request.headers.authorization)
        decoded == VerifyAccessToken(token)
    IN  IF Falsy(token) THEN NoUser
        ELSE IF ~decoded.ok THEN NoUser
        ELSE IF store = "fails" THEN NoUser
        ELSE FindUnique(decoded.payload.id)

RejectingWithOptionalAuth(request, handler, store) ==
    WithAuth(request, handler, NoOptions, store)

\* withOptionalAuth(request, handler): the handler is called outside the try
WithOptionalAuth(request, handler, store) ==
    Gate(HandlerOutcome(handler), TRUE, GetUserFromRequest(request, store))

----------------------------------------------------------------------------
(* refresh endpoint: refreshHandler (src/unnamed/part_002) *)

NoTokens == [accessToken |-> NoToken, refreshToken |-> NoToken]

\* internalServerErrorResponse(message, error): the error's own message outside production
InternalServerErrorResponse(message, error) ==
    ErrorResponse(IF nodeEnv = "production" THEN message ELSE error, 500)

\* the outcome is [out, issued]: the response and the token pair it carries
Refreshed(out, issued) == [out |-> out, issued |-> issued]

AnyKindRefreshHandler(body, store) ==
    LET decoded == VerifyCatch(JwtVerify(body.refreshToken, env.JWT_REFRESH_SECRET),
                               "Refresh token has expired", "Invalid refresh token")
        user == FindUnique(decoded.payload.id)
        newTokens == GenerateTokens(user)
    IN  IF Falsy(body.refreshToken)
            THEN Refreshed(BadRequestResponse("Validation failed"), NoTokens)
        ELSE IF ~decoded.ok
            THEN Refreshed(UnauthorizedResponse(decoded.message), NoTokens)
        ELSE IF store = "fails"
            THEN Refreshed(InternalServerErrorResponse("Failed to refresh token",
                                                       "store failure"), NoTokens)
        ELSE IF user = NoUser
            THEN Refreshed(UnauthorizedResponse("User not found. Please login again."),
                           NoTokens)
        ELSE Refreshed(SuccessResponse([user |-> user], "Token refreshed successfully"),
                       newTokens)

\* refreshHandler(request), given the parsed body and whether the store answers
RefreshHandler(body, store) ==
    LET decoded == VerifyRefreshToken(body.refreshToken)
        user == FindUnique(decoded.payload.id)
        newTokens == GenerateTokens(user)
    IN  IF Falsy(body.refreshToken)
            THEN Refreshed(BadRequestResponse("Validation failed"), NoTokens)
        ELSE IF ~decoded.ok
            THEN Refreshed(UnauthorizedResponse(decoded.message), NoTokens)
        ELSE IF store = "fails"
            THEN Refreshed(InternalServerErrorResponse("Failed to refresh token",
                                                       "store failure"), NoTokens)
        ELSE IF user = NoUser
            THEN Refreshed(UnauthorizedResponse("User not found. Please login again."),
                           NoTokens)
        ELSE Refreshed(SuccessResponse([user |-> user], "Token refreshed successfully"),
                       newTokens)

----------------------------------------------------------------------------
(* Clients and the credentials they present *)

AuthHeader(scheme, token) == [scheme |-> scheme, token |-> token]

\* no authorization header; a header of another scheme; 'Bearer ' followed by a token
NoHeader == AuthHeader("absent", NoToken)
BasicHeader == AuthHeader("Basic", NoToken)
Bearer(token) == AuthHeader("Bearer", token)

(***************************************************************************)
(* origin says where the credential comes from: "generateAccessToken" or   *)
(* "generateRefreshToken" for a token the Token Service issued for         *)
(* identity for, "crafted" for a token made by a party that holds the      *)
(* secret named by holder ("nobody": no secret, the signature is bad),     *)
(* "client" for a header that carries no token, "unset" while the client   *)
(* has not yet chosen what to present.                                     *)
(***************************************************************************)
Credential(header, origin, holder, for) ==
    [authorization |-> header, origin |-> origin, holder |-> holder, for |-> for]

Holders == {"JWT_SECRET", "JWT_REFRESH_SECRET", "nobody"}

KeyOf(holder) ==
    IF holder = "JWT_SECRET" THEN env.JWT_SECRET
    ELSE IF holder = "JWT_REFRESH_SECRET" THEN env.JWT_REFRESH_SECRET
    ELSE "bad"

\* the claims a crafted token may carry for a subject: email, role, roles
CraftedClaims(id) ==
    {<<EmailOf(id), "Admin", None>>, <<EmailOf(id), "User", None>>,
     <<None, None, None>>, <<None, None, "Admin">>}

CraftedTokens(holder) ==
    UNION {{Jwt(KeyOf(holder), type, iss, aud, exp, id, c[1], c[2], c[3]) :
                type \in {"access", "refresh"},
                iss \in {ISSUER, "other-api"}, aud \in {AUDIENCE, "other-app"},
                exp \in {{}, {1}}, c \in CraftedClaims(id)} : id \in UserIds}

Paths ==
    {<<"api", "auth", "login">>, <<"api", "auth", "refresh">>,
     <<"api", "tasks">>, <<"api", "tasks", "42">>,
     <<"api", "users">>, <<"api", "users", "7">>,
     <<"api", "health">>}

Methods == {"GET", "DELETE"}

RoleOptions == {NoOptions, WithRoles(<<>>), WithRoles(<<"Admin">>), WithRoles(<<"User", "Admin">>)}

\* the x-user-* headers a client may put on its own request: none, or all three
ClientHeaders ==
    [n \in {"x-user-id", "x-user-email", "x-user-role"} |->
        CASE n = "x-user-id" -> "u9"
          [] n = "x-user-email" -> "u9@mail"
          [] OTHER -> "Admin"]

SuppliedHeaders == {NoHeaders, ClientHeaders}

NoRes == [op |-> "none"]

----------------------------------------------------------------------------
(* Rate Governor (src/unnamed/part_004, rateLimit.js part) *)

rateVars == <<requestCounts, customRequestCounts, registerRequestCounts, reqs>>

Reqs == 1..NumReqs

\* limit and window of the default governor (RATE_LIMIT_MAX_REQUESTS, RATE_LIMIT_WINDOW_MS)
MAX_REQUESTS == 1
WINDOW_MS == 1

\* the arguments of the createRateLimit call that built the route-scoped governor
maxRequests == 2
windowMs == 2

\* the governor machine's clock runs until both windows have elapsed once
MaxTime == WINDOW_MS + windowMs

Loopback == {"::1", "127.0.0.1"}
Ips == {"10.0.0.1", "127.0.0.1", "unknown"}

(***************************************************************************)
(* The three headers a key is derived from.  x-forwarded-for is the list   *)
(* of its comma-separated entries, trimmed; an absent header is <<>> for   *)
(* x-forwarded-for and None for the other two.                             *)
(***************************************************************************)
Headers(forwarded, realIP, cloudflareIP) ==
    [forwarded |-> forwarded, realIP |-> realIP, cloudflareIP |-> cloudflareIP]

RequestHeaders ==
    {Headers(<<"10.0.0.1", "10.9.9.9">>, "10.0.0.2", None),
     Headers(<<>>, "127.0.0.1", None),
     Headers(<<>>, "10.0.0.2", "10.0.0.1"),
     Headers(<<>>, None, "127.0.0.1")}

GetClientIP(request) ==
    LET h == request.headers IN
    IF h.forwarded # <<>> THEN h.forwarded[1]
    ELSE IF h.cloudflareIP # None THEN h.cloudflareIP
    ELSE IF h.realIP # None THEN h.realIP
    ELSE "unknown"

\* an entry {count, resetTime}; NoEntry stands for a key the Map does not hold
Entry(count, resetTime) == [count |-> count, resetTime |-> resetTime]
NoEntry == [count |-> 0, resetTime |-> -1]

EagerCleanupExpiredEntries(store) ==
    [ip \in Ips |-> IF store[ip] # NoEntry /\ now >= store[ip].resetTime
                    THEN NoEntry ELSE store[ip]]

\* cleanupExpiredEntries(): every entry whose resetTime has passed is deleted
CleanupExpiredEntries(store) ==
    [ip \in Ips |-> IF store[ip] # NoEntry /\ now > store[ip].resetTime
                    THEN NoEntry ELSE store[ip]]

\* the store after getRateLimitInfo(ip): the entry is created, or replaced once expired
GetRateLimitInfo(store, ip, window) ==
    IF store[ip] = NoEntry \/ now > store[ip].resetTime
    THEN [store EXCEPT ![ip] = Entry(0, now + window)]
    ELSE store

\* Math.max(0, a)
Max0(a) == IF a < 0 THEN 0 ELSE a

NoIncrementCheckRateLimit(store, ip) ==
    LET got == GetRateLimitInfo(store, ip, WINDOW_MS)
        data == got[ip]
        allowed == data.count < MAX_REQUESTS
    IN  [store |-> got, allowed |-> allowed,
         remaining |-> Max0(MAX_REQUESTS - data.count),
         resetTime |-> data.resetTime, limit |-> MAX_REQUESTS]

OffByOneCheckRateLimit(store, ip) ==
    LET got == GetRateLimitInfo(store, ip, WINDOW_MS)
        data == got[ip]
        allowed == data.count <= MAX_REQUESTS
        count == IF allowed THEN data.count + 1 ELSE data.count
    IN  [store |-> [got EXCEPT ![ip] = Entry(count, data.resetTime)],
         allowed |-> allowed,
         remaining |-> Max0(MAX_REQUESTS - count),
         resetTime |-> data.resetTime, limit |-> MAX_REQUESTS]

\* checkRateLimit(ip): the decision, and the store it leaves
CheckRateLimit(store, ip) ==
    LET got == GetRateLimitInfo(store, ip, WINDOW_MS)
        data == got[ip]
        allowed == data.count < MAX_REQUESTS
        count == IF allowed THEN data.count + 1 ELSE data.count
    IN  [store |-> [got EXCEPT ![ip] = Entry(count, data.resetTime)],
         allowed |-> allowed,
         remaining |-> Max0(MAX_REQUESTS - count),
         resetTime |-> data.resetTime, limit |-> MAX_REQUESTS]

FloorSecondsUntilReset(resetTime) == (resetTime - now) \div 1000

\* Math.ceil((resetTime - Date.now()) / 1000)
GetSecondsUntilReset(resetTime) ==
    LET ms == resetTime - now IN
    IF ms >= 0 THEN (ms + 999) \div 1000 ELSE -((-ms) \div 1000)

\* tooManyRequestsResponse(message, details)
TooManyRequestsResponse(message, details) ==
    [kind |-> "response", status |-> 429,
     body |-> [success |-> FALSE, error |-> message, code |-> 429, details |-> details]]

\* new Date(ms).toISOString(): the instant written as date-time to the second, and millis
ToISOString(ms) == [dateTime |-> ms \div 1000, millis |-> ms % 1000]

RateLimitDetails(limit, resetTime) ==
    [limit |-> limit, remaining |-> 0, resetTime |-> ToISOString(resetTime),
     retryAfter |-> GetSecondsUntilReset(resetTime)]

AnyPostureBypassed(ip) == ip \in Loopback

\* the escape hatch of both governors
Bypassed(ip) == nodeEnv = "development" /\ ip \in Loopback

(***************************************************************************)
(* What a governor call leaves when it reaches its await or returns early: *)
(* the store, the key, and step: "bypass" (handler returned as is),        *)
(* "reject" (429 returned, in out) or "await" (handler awaited, with the   *)
(* values the continuation holds in its locals).  count is the count of    *)
(* the key's entry at that point.                                          *)
(***************************************************************************)
Call(store, ip, step, allowed, remaining, resetTime, limit, out) ==
    [store |-> store, ip |-> ip, step |-> step, allowed |-> allowed,
     remaining |-> remaining, resetTime |-> resetTime, limit |-> limit, out |-> out,
     count |-> store[ip].count]

NoOut == [kind |-> "none"]

\* withRateLimit(request, handler) up to the await
WithRateLimit(request, store) ==
    LET ip == GetClientIP(request)
        d == CheckRateLimit(store, ip)
    IN  IF Bypassed(ip) THEN Call(store, ip, "bypass", TRUE, 0, 0, 0, NoOut)
        ELSE IF ~d.allowed
            THEN Call(d.store, ip, "reject", FALSE, d.remaining, d.resetTime, d.limit,
                      TooManyRequestsResponse("Too many requests. Please try again later.",
                                              RateLimitDetails(MAX_REQUESTS, d.resetTime)))
        ELSE Call(d.store, ip, "await", TRUE, d.remaining, d.resetTime, d.limit, NoOut)

NoIncrementCreateRateLimit(request, store) ==
    LET ip == GetClientIP(request)
        got == GetRateLimitInfo(store, ip, windowMs)
        data == got[ip]
        allowed == data.count < maxRequests
    IN  IF Bypassed(ip) THEN Call(store, ip, "bypass", TRUE, 0, 0, 0, NoOut)
        ELSE IF ~allowed
            THEN Call(got, ip, "reject", FALSE, 0, data.resetTime, maxRequests,
                      TooManyRequestsResponse("Too many requests. Please try again later.",
                                              RateLimitDetails(maxRequests, data.resetTime)))
        ELSE Call(got, ip, "await", TRUE, maxRequests - data.count, data.resetTime,
                  maxRequests, NoOut)

\* the function createRateLimit(maxRequests, windowMs) returns, up to the await
CreateRateLimit(request, store) ==
    LET ip == GetClientIP(request)
        got == GetRateLimitInfo(store, ip, windowMs)
        data == got[ip]
        allowed == data.count < maxRequests
    IN  IF Bypassed(ip) THEN Call(store, ip, "bypass", TRUE, 0, 0, 0, NoOut)
        ELSE IF ~allowed
            THEN Call(got, ip, "reject", FALSE, 0, data.resetTime, maxRequests,
                      TooManyRequestsResponse("Too many requests. Please try again later.",
                                              RateLimitDetails(maxRequests, data.resetTime)))
        ELSE Call([got EXCEPT ![ip] = Entry(data.count + 1, data.resetTime)], ip, "await",
                  TRUE, maxRequests - (data.count + 1), data.resetTime, maxRequests, NoOut)

(***************************************************************************)
(* A request: pc is "new", "handler" (its handler is running) or "done";   *)
(* at is the instant the governor evaluated it.  data is the entry object  *)
(* the continuation of a createRateLimit call still refers to: live while  *)
(* the store holds that object, otherwise the object as it was left when   *)
(* the store replaced it.                                                  *)
(***************************************************************************)
LiveData == [live |-> TRUE, count |-> 0, resetTime |-> 0]
DeadData(entry) == [live |-> FALSE, count |-> entry.count, resetTime |-> entry.resetTime]

NewReq ==
    [pc |-> "new", gov |-> "none", ip |-> "none", at |-> 0, step |-> "none",
     allowed |-> FALSE, remaining |-> 0, resetTime |-> 0, limit |-> 0, count |-> 0,
     data |-> LiveData, invoked |-> FALSE, out |-> NoOut]

Entered(gov, call) ==
    [pc |-> IF call.step = "reject" THEN "done" ELSE "handler",
     gov |-> gov, ip |-> call.ip, at |-> now, step |-> call.step,
     allowed |-> call.allowed, remaining |-> call.remaining,
     resetTime |-> call.resetTime, limit |-> call.limit, count |-> call.count,
     data |-> LiveData, invoked |-> call.step # "reject", out |-> call.out]

\* a later call replaced the entry object of its key: earlier continuations keep the old one
Detach(req, call, store) ==
    IF req.pc = "handler" /\ req.gov = "custom" /\ req.step = "await" /\ req.data.live
       /\ req.ip = call.ip /\ call.store[call.ip].resetTime # store[call.ip].resetTime
    THEN [req EXCEPT !.data = DeadData(store[req.ip])]
    ELSE req

RateLimitHeaders(limit, remaining, resetTime) ==
    [limit |-> limit, remaining |-> remaining, reset |-> resetTime]

\* the three response.headers.set of withRateLimit: the values destructured before the await
WithRateLimitHeaders(req) == RateLimitHeaders(req.limit, req.remaining, req.resetTime)

\* those of createRateLimit: read from the entry object after the await
CreateRateLimitHeaders(req, store) ==
    LET data == IF req.data.live THEN store[req.ip] ELSE req.data
    IN  RateLimitHeaders(maxRequests, maxRequests - data.count, data.resetTime)

(***************************************************************************)
(* The handler returns its response: the continuation sets the headers on  *)
(* it, unless the call was a bypass, which returns the handler's promise   *)
(* as it is.  (When the handler fails the await throws and no continuation *)
(* runs; the machine follows the handlers that return.)                    *)
(***************************************************************************)
Settled(req, headers) ==
    [req EXCEPT !.pc = "done",
                !.out = IF req.step = "bypass"
                        THEN [kind |-> "response", status |-> 200, bypass |-> TRUE]
                        ELSE [kind |-> "response", status |-> 200, headers |-> headers]]

----------------------------------------------------------------------------
(* The token and gate machine *)

\* the module body of jwt.js: it throws unless both secrets are set
LoadOutcome == IF env.JWT_SECRET = None \/ env.JWT_REFRESH_SECRET = None THEN "failed" ELSE "ok"

InitGate ==
    /\ now = 0
    /\ env \in [JWT_SECRET : {"s1", None}, JWT_REFRESH_SECRET : {"s1", "s2", None}]
    /\ loaded = "pending"
    /\ users \in [UserIds -> Roles \cup {None}]
    /\ tasks = [id \in TaskIds |-> NoTask]
    /\ cred = Credential(NoHeader, "unset", "nobody", NoUser)
    /\ res = NoRes
    /\ nodeEnv = "production"
    /\ requestCounts = [ip \in Ips |-> NoEntry]
    /\ customRequestCounts = [ip \in Ips |-> NoEntry]
    /\ registerRequestCounts = [ip \in Ips |-> NoEntry]
    /\ reqs = [r \in Reqs |-> NewReq]

LoadJwtModule ==
    /\ loaded = "pending"
    /\ loaded' = LoadOutcome
    /\ UNCHANGED <<now, env, users, tasks, cred, res, nodeEnv, rateVars>>

\* time passes; the outcome of an operation belongs to the instant it ran at
TickGate ==
    /\ now < MaxNow
    /\ now' = now + 1
    /\ res' = NoRes
    /\ UNCHANGED <<env, loaded, users, tasks, cred, nodeEnv, rateVars>>

(***************************************************************************)
(* A behaviour follows one client credential from the moment it is chosen, *)
(* and one operation per instant: an operation runs when the outcome of    *)
(* the previous one has been cleared by the clock.                         *)
(***************************************************************************)
Unset == cred.origin = "unset"
Ready == loaded = "ok" /\ ~Unset /\ res = NoRes

\* login or refresh issues a pair for an identity; the client keeps one of the two
IssueTokens(payload, which) ==
    /\ loaded = "ok" /\ Unset
    /\ cred' = Credential(Bearer(GenerateTokens(payload)[which]),
                          IF which = "accessToken" THEN "generateAccessToken"
                          ELSE "generateRefreshToken", "nobody", payload)
    /\ res' = NoRes
    /\ UNCHANGED <<now, env, loaded, users, tasks, nodeEnv, rateVars>>

\* a client presents no header, a header of another scheme, or a bearer that is no token
PresentHeader(header) ==
    /\ loaded = "ok" /\ Unset
    /\ cred' = Credential(header, "client", "nobody", NoUser)
    /\ res' = NoRes
    /\ UNCHANGED <<now, env, loaded, users, tasks, nodeEnv, rateVars>>

\* a party holding one secret, or none, presents a token of its own making
PresentCrafted ==
    /\ loaded = "ok" /\ Unset
    /\ \E holder \in Holders : \E token \in CraftedTokens(holder) :
          cred' = Credential(Bearer(token), "crafted", holder, NoUser)
    /\ res' = NoRes
    /\ UNCHANGED <<now, env, loaded, users, tasks, nodeEnv, rateVars>>

HasToken == cred.authorization.scheme = "Bearer"

CallVerifyAccessToken ==
    /\ Ready /\ HasToken
    /\ res' = [op |-> "verifyAccessToken", r |-> VerifyAccessToken(cred.authorization.token)]
    /\ UNCHANGED <<now, env, loaded, users, tasks, cred, nodeEnv, rateVars>>

CallVerifyRefreshToken ==
    /\ Ready /\ HasToken
    /\ res' = [op |-> "verifyRefreshToken", r |-> VerifyRefreshToken(cred.authorization.token)]
    /\ UNCHANGED <<now, env, loaded, users, tasks, cred, nodeEnv, rateVars>>

CallVerifyTokenEdge ==
    /\ Ready /\ HasToken
    /\ res' = [op |-> "verifyTokenEdge", r |-> VerifyTokenEdge(cred.authorization.token)]
    /\ UNCHANGED <<now, env, loaded, users, tasks, cred, nodeEnv, rateVars>>

\* a request reaches the Edge Gate, with the identity headers its client chose to send
EdgeRequest(path, method, supplied) ==
    /\ Ready
    /\ MatcherMatches(path)
    /\ LET request == [path |-> path, method |-> method,
                       headers |-> [authorization |-> cred.authorization,
                                    supplied |-> supplied]]
       IN  res' = [op |-> "middleware", request |-> request, out |-> Middleware(request)]
    /\ UNCHANGED <<now, env, loaded, users, tasks, cred, nodeEnv, rateVars>>

\* a request reaches a route wrapped by the Authentication Gate
AuthRequest(options, handler, store) ==
    /\ Ready
    /\ LET request == [headers |-> [authorization |-> cred.authorization]]
       IN  res' = [op |-> "withAuth", options |-> options, handler |-> handler,
                   store |-> store,
                   gate |-> WithAuth(request, handler, options, store)]
    /\ UNCHANGED <<now, env, loaded, users, tasks, cred, nodeEnv, rateVars>>

\* a request reaches a route wrapped by withOptionalAuth
OptionalAuthRequest(handler, store) ==
    /\ Ready
    /\ LET request == [headers |-> [authorization |-> cred.authorization]]
       IN  res' = [op |-> "withOptionalAuth", handler |-> handler, store |-> store,
                   gate |-> WithOptionalAuth(request, handler, store)]
    /\ UNCHANGED <<now, env, loaded, users, tasks, cred, nodeEnv, rateVars>>

RotatingRefreshRequest(store) ==
    /\ Ready
    /\ LET body == [refreshToken |-> ExtractTokenFromHeader(cred.authorization)]
       IN  res' = [op |-> "refresh", store |-> store, r |-> RefreshHandler(body, store)]
    /\ env' = [env EXCEPT !.JWT_REFRESH_SECRET = "rotated"]
    /\ UNCHANGED <<now, loaded, users, tasks, cred, nodeEnv, rateVars>>

\* the credential is posted to the refresh endpoint as body.refreshToken
RefreshRequest(store) ==
    /\ Ready
    /\ LET body == [refreshToken |-> ExtractTokenFromHeader(cred.authorization)]
       IN  res' = [op |-> "refresh", store |-> store, r |-> RefreshHandler(body, store)]
    /\ UNCHANGED <<now, env, loaded, users, tasks, cred, nodeEnv, rateVars>>

NextGate ==
    \/ LoadJwtModule
    \/ TickGate
    \/ \E payload \in Identities, which \in {"accessToken", "refreshToken"} :
          IssueTokens(payload, which)
    \/ \E header \in {NoHeader, BasicHeader, Bearer(EmptyToken), Bearer(MalformedToken)} :
          PresentHeader(header)
    \/ PresentCrafted
    \/ CallVerifyAccessToken
    \/ CallVerifyRefreshToken
    \/ CallVerifyTokenEdge
    \/ \E path \in Paths, method \in Methods, supplied \in SuppliedHeaders :
          EdgeRequest(path, method, supplied)
    \/ \E options \in RoleOptions, handler \in {"returns", "throws", "rejects"},
          store \in {"answers", "fails"} : AuthRequest(options, handler, store)
    \/ \E handler \in {"returns", "rejects"}, store \in {"answers", "fails"} :
          OptionalAuthRequest(handler, store)
    \/ \E store \in {"answers", "fails"} : RefreshRequest(store)

----------------------------------------------------------------------------
(* The governor machine *)

(***************************************************************************)
(* The synchronous part of a governor runs to completion: JavaScript       *)
(* interleaves requests only at an await.  EnterX(r) is a call of the      *)
(* governor up to `await handler(request)` (or up to its return when the   *)
(* request is rejected), ReturnX(r) is its continuation once the handler   *)
(* has settled.  Requests arrive in the order of their numbers; their      *)
(* handlers settle in any order.                                           *)
(***************************************************************************)
InitRate ==
    /\ now = 0
    /\ env = [JWT_SECRET |-> "s1", JWT_REFRESH_SECRET |-> "s2"]
    /\ loaded = "ok"
    /\ users = [id \in UserIds |-> "User"]
    /\ tasks = [id \in TaskIds |-> NoTask]
    /\ cred = Credential(NoHeader, "unset", "nobody", NoUser)
    /\ res = NoRes
    /\ nodeEnv \in {"production", "development"}
    /\ requestCounts = [ip \in Ips |-> NoEntry]
    /\ customRequestCounts = [ip \in Ips |-> NoEntry]
    /\ registerRequestCounts = [ip \in Ips |-> NoEntry]
    /\ reqs = [r \in Reqs |-> NewReq]

TickRate ==
    /\ now < MaxTime
    /\ now' = now + 1
    /\ UNCHANGED <<gateVars, nodeEnv, rateVars>>

Arrives(r) == reqs[r].pc = "new" /\ \A q \in Reqs : q < r => reqs[q].pc # "new"

EnterWithRateLimit(r) ==
    /\ Arrives(r)
    /\ \E headers \in RequestHeaders :
          LET call == WithRateLimit([headers |-> headers], requestCounts)
          IN  /\ requestCounts' = call.store
              /\ reqs' = [reqs EXCEPT ![r] = Entered("default", call)]
    /\ UNCHANGED <<now, gateVars, nodeEnv, registerRequestCounts, customRequestCounts>>

ReturnWithRateLimit(r) ==
    /\ reqs[r].pc = "handler" /\ reqs[r].gov = "default"
    /\ reqs' = [reqs EXCEPT ![r] = Settled(reqs[r], WithRateLimitHeaders(reqs[r]))]
    /\ UNCHANGED <<now, gateVars, nodeEnv, registerRequestCounts, requestCounts,
                   customRequestCounts>>

EnterCreateRateLimit(r) ==
    /\ Arrives(r)
    /\ \E headers \in RequestHeaders :
          LET call == CreateRateLimit([headers |-> headers], customRequestCounts)
          IN  /\ customRequestCounts' = call.store
              /\ reqs' = [q \in Reqs |->
                            IF q = r THEN Entered("custom", call)
                            ELSE Detach(reqs[q], call, customRequestCounts)]
    /\ UNCHANGED <<now, gateVars, nodeEnv, registerRequestCounts, requestCounts>>

ReturnCreateRateLimit(r) ==
    /\ reqs[r].pc = "handler" /\ reqs[r].gov = "custom"
    /\ reqs' = [reqs EXCEPT ![r] =
                    Settled(reqs[r], CreateRateLimitHeaders(reqs[r], customRequestCounts))]
    /\ UNCHANGED <<now, gateVars, nodeEnv, registerRequestCounts, requestCounts,
                   customRequestCounts>>

\* setInterval(cleanupExpiredEntries, 5 * 60 * 1000): the timer fires between requests
Sweep ==
    /\ requestCounts' = CleanupExpiredEntries(requestCounts)
    /\ requestCounts' # requestCounts
    /\ UNCHANGED <<now, gateVars, nodeEnv, registerRequestCounts, customRequestCounts, reqs>>

NextRate ==
    \/ TickRate
    \/ \E r \in Reqs : EnterWithRateLimit(r)
    \/ \E r \in Reqs : ReturnWithRateLimit(r)
    \/ \E r \in Reqs : EnterCreateRateLimit(r)
    \/ \E r \in Reqs : ReturnCreateRateLimit(r)
    \/ Sweep

----------------------------------------------------------------------------
(* Middleware Composer: the route exports *)

\* jwt.decode(token): the payload without any verification, null when it is no JWS
DecodeToken(token) == IF token.form = "jwt" THEN [id |-> token.id] ELSE [id |-> None]

\* getUserIdFromRequest of the logger: decoded?.id || null
GetUserIdFromRequest(request) ==
    LET authHeader == request.headers.authorization
    IN  IF authHeader.scheme # "Bearer" THEN None ELSE DecodeToken(authHeader.token).id

\* getClientIP of the logger
LoggerGetClientIP(request) ==
    LET h == request.headers IN
    IF h.forwarded # <<>> THEN h.forwarded[1]
    ELSE IF h.cloudflareIP # None THEN h.cloudflareIP
    ELSE IF h.realIP # None THEN h.realIP
    ELSE "unknown"

\* the collaborators withAuth calls before it decides, in the order it calls them
WithAuthCalls(request) ==
    LET token == ExtractTokenFromHeader(request.headers.authorization)
    IN  IF Falsy(token) THEN <<>>
        ELSE IF ~VerifyAccessToken(token).ok THEN <<"verifyAccessToken">>
        ELSE <<"verifyAccessToken", "findUnique">>

(***************************************************************************)
(* A stage's outcome: out is what it returns to its caller, trace the      *)
(* stages and collaborators entered from it on, in order, user the         *)
(* identity attached to the request, gov what the governor did (step,      *)
(* key, the key's count after it, the store it leaves), headers the        *)
(* rate-limit headers set on the response, log the logger's record.        *)
(***************************************************************************)
NoGov == [step |-> "none", ip |-> "unknown", count |-> 0]
NoLog == [ip |-> "unknown", userId |-> None, status |-> 0]
NoRateLimitHeaders == [set |-> FALSE]
SetRateLimitHeaders(headers) == [set |-> TRUE, values |-> headers]

Stage(out, trace, user, gov, headers, log) ==
    [out |-> out, trace |-> trace, user |-> user, gov |-> gov, headers |-> headers,
     log |-> log]

\* withAuth(r, handler, options) as the innermost wrapper of a route
AuthStage(request, handler, options, store) ==
    LET gate == WithAuth(request, handler, options, store)
    IN  Stage(gate.out,
              <<"withAuth">> \o WithAuthCalls(request)
                  \o (IF gate.invoked THEN <<"handler">> ELSE <<>>),
              gate.user, NoGov, NoRateLimitHeaders, NoLog)

\* a terminal handler called with no Authentication Gate around it
HandlerStage(handler) ==
    Stage(HandlerOutcome(handler), <<"handler">>, NoUser, NoGov, NoRateLimitHeaders, NoLog)

(***************************************************************************)
(* withRateLimit(req, inner): inner is what the wrapped function does if   *)
(* it is called.  The headers are set on the response the handler          *)
(* returned; a failure of the handler passes through the await.            *)
(***************************************************************************)
RateLimitStage(request, counts, inner) ==
    LET call == WithRateLimit(request, counts)
        gov == [step |-> call.step, ip |-> call.ip, count |-> call.count]
    IN  IF call.step = "reject"
            THEN Stage(call.out, <<"withRateLimit">>, NoUser, gov, NoRateLimitHeaders, NoLog)
        ELSE Stage(inner.out, <<"withRateLimit">> \o inner.trace, inner.user, gov,
                   IF call.step = "await" /\ inner.out.kind = "response"
                   THEN SetRateLimitHeaders(WithRateLimitHeaders(call))
                   ELSE NoRateLimitHeaders,
                   NoLog)

\* the store withRateLimit leaves
RateLimitStore(request, counts) == WithRateLimit(request, counts).store

SwallowingWithLogging(request, inner) ==
    Stage(IF inner.out.kind = "response" THEN inner.out
          ELSE ErrorResponse("Internal server error", 500),
          <<"withLogging">> \o inner.trace, inner.user, inner.gov, inner.headers,
          [ip |-> LoggerGetClientIP(request), userId |-> GetUserIdFromRequest(request),
           status |-> IF inner.out.kind = "response" THEN inner.out.status ELSE 500])

AttachingWithLogging(request, inner) ==
    Stage(inner.out, <<"withLogging">> \o inner.trace,
          IF GetUserIdFromRequest(request) # None
          THEN [id |-> GetUserIdFromRequest(request)] ELSE inner.user,
          inner.gov, inner.headers,
          [ip |-> LoggerGetClientIP(request), userId |-> GetUserIdFromRequest(request),
           status |-> IF inner.out.kind = "response" THEN inner.out.status ELSE 500])

\* withLogging(request, inner): the response is returned, a failure logged as 500 and rethrown
WithLogging(request, inner) ==
    Stage(inner.out, <<"withLogging">> \o inner.trace, inner.user, inner.gov, inner.headers,
          [ip |-> LoggerGetClientIP(request), userId |-> GetUserIdFromRequest(request),
           status |-> IF inner.out.kind = "response" THEN inner.out.status ELSE 500])

\* a function createRateLimit returned, called as limiter(req, inner)
CreateRateLimitStage(request, counts, inner) ==
    LET call == CreateRateLimit(request, counts)
        gov == [step |-> call.step, ip |-> call.ip, count |-> call.count]
    IN  IF call.step = "reject"
            THEN Stage(call.out, <<"createRateLimit">>, NoUser, gov, NoRateLimitHeaders, NoLog)
        ELSE Stage(inner.out, <<"createRateLimit">> \o inner.trace, inner.user, gov,
                   IF call.step = "await" /\ inner.out.kind = "response"
                   THEN SetRateLimitHeaders(
                            CreateRateLimitHeaders([data |-> LiveData, ip |-> call.ip],
                                                   call.store))
                   ELSE NoRateLimitHeaders,
                   NoLog)

\* the Map of the closure after the call
CreateRateLimitStore(request, counts) == CreateRateLimit(request, counts).store

\* export POST of login and of register: withLogging(request, limiter(req, handler))
LimitedRoute(request, handler, counts) ==
    WithLogging(request, CreateRateLimitStage(request, counts, HandlerStage(handler)))

\* the protected operations and the options their Authentication Gate is called with
ProtectedOps ==
    {"GET /api/tasks", "POST /api/tasks", "GET /api/tasks/[id]", "PUT /api/tasks/[id]",
     "DELETE /api/tasks/[id]", "GET /api/users"}

AuthOptions(op) ==
    IF op \in {"DELETE /api/tasks/[id]", "GET /api/users"} THEN WithRoles(<<"Admin">>)
    ELSE NoOptions

AuthFirstProtectedRoute(op, request, handler, store, counts) ==
    LET auth == AuthStage(request, handler, AuthOptions(op), store)
        gov == RateLimitStage(request, counts, HandlerStage(handler))
    IN  WithLogging(request,
            IF auth.out.kind = "response" /\ auth.out.status # 200 THEN auth
            ELSE Stage(gov.out, <<"withAuth">> \o WithAuthCalls(request) \o gov.trace,
                       auth.user, gov.gov, gov.headers, NoLog))

\* export GET / POST / PUT / DELETE of the protected routes
ProtectedRoute(op, request, handler, store, counts) ==
    WithLogging(request,
        RateLimitStage(request, counts,
            AuthStage(request, handler, AuthOptions(op), store)))

----------------------------------------------------------------------------
(* The route machine: requests served one after another by the route exports *)

\* header combinations of the requests sent to the routes
RouteHeaders ==
    {Headers(<<"10.0.0.1", "10.9.9.9">>, "10.0.0.2", None),
     Headers(<<>>, "10.0.0.2", "10.0.0.1"),
     Headers(<<>>, None, "127.0.0.1"),
     Headers(<<>>, None, None)}

\* the tokens login issued for u1 at instant 0, held by the client ever since
IssuedAtStart ==
    [accessToken |-> Jwt(env.JWT_SECRET, "access", ISSUER, AUDIENCE, {JWT_ACCESS_EXPIRES_IN},
                         "u1", EmailOf("u1"), "User", None),
     refreshToken |-> Jwt(env.JWT_REFRESH_SECRET, "refresh", ISSUER, AUDIENCE,
                          {JWT_REFRESH_EXPIRES_IN}, "u1", None, None, None)]

RouteAuthorizations == {NoHeader, Bearer(IssuedAtStart.accessToken)}

InitRoute ==
    /\ now = 0
    /\ env = [JWT_SECRET |-> "s1", JWT_REFRESH_SECRET |-> "s2"]
    /\ loaded = "ok"
    /\ users \in [UserIds -> Roles]
    /\ tasks = [id \in TaskIds |-> NoTask]
    /\ cred = Credential(NoHeader, "unset", "nobody", NoUser)
    /\ res = NoRes
    /\ nodeEnv \in {"production", "development"}
    /\ requestCounts = [ip \in Ips |-> NoEntry]
    /\ customRequestCounts = [ip \in Ips |-> NoEntry]
    /\ registerRequestCounts = [ip \in Ips |-> NoEntry]
    /\ reqs = [r \in Reqs |-> NewReq]

\* time passes, until the default window has elapsed once; the outcome of a request
\* belongs to the instant it was served at
TickRoute ==
    /\ now < windowMs
    /\ now' = now + 1
    /\ res' = NoRes
    /\ UNCHANGED <<env, loaded, users, tasks, cred, nodeEnv, rateVars>>

\* what the terminal handler did in the request: "uncalled" when no stage reached it
Ran(stage, handler) ==
    IF \E i \in 1..Len(stage.trace) : stage.trace[i] = "handler" THEN handler ELSE "uncalled"

\* a behaviour follows the requests of one key: no governor holds an entry of another
OneKey(ip) ==
    \A other \in Ips \ {ip} :
        /\ requestCounts[other] = NoEntry
        /\ customRequestCounts[other] = NoEntry
        /\ registerRequestCounts[other] = NoEntry

RouteRequest(headers, authorization) ==
    [headers |-> [forwarded |-> headers.forwarded, realIP |-> headers.realIP,
                  cloudflareIP |-> headers.cloudflareIP, authorization |-> authorization]]

\* a request to one of the protected operations
ProtectedRequest(op, headers, authorization, handler, store) ==
    /\ OneKey(GetClientIP(RouteRequest(headers, authorization)))
    /\ LET request == RouteRequest(headers, authorization)
           stage == ProtectedRoute(op, request, handler, store, requestCounts)
       IN  /\ res' = [op |-> "protected", route |-> op, request |-> request,
                      handler |-> Ran(stage, handler), stage |-> stage]
           /\ requestCounts' = RateLimitStore(request, requestCounts)
    /\ UNCHANGED <<now, env, loaded, users, tasks, cred, nodeEnv, customRequestCounts,
                   registerRequestCounts, reqs>>

SharedRouteStore(route) ==
    IF route \in {"login", "register"} THEN customRequestCounts ELSE requestCounts

(***************************************************************************)
(* The Map each governor counts in: the module-level requestCounts for     *)
(* withRateLimit, and for each createRateLimit call the Map its closure    *)
(* holds (loginRateLimit, registerRateLimit).  In the machine both         *)
(* closures are built with the same maxRequests and windowMs.              *)
(***************************************************************************)
RouteStore(route) ==
    IF route = "login" THEN customRequestCounts
    ELSE IF route = "register" THEN registerRequestCounts
    ELSE requestCounts

\* POST /api/auth/login
LoginRequest(headers, handler) ==
    /\ OneKey(GetClientIP(RouteRequest(headers, NoHeader)))
    /\ LET request == RouteRequest(headers, NoHeader)
           stage == LimitedRoute(request, handler, RouteStore("login"))
       IN  /\ res' = [op |-> "login", route |-> "login", request |-> request,
                      handler |-> Ran(stage, handler), stage |-> stage]
           /\ customRequestCounts' = CreateRateLimitStore(request, RouteStore("login"))
    /\ UNCHANGED <<now, env, loaded, users, tasks, cred, nodeEnv, requestCounts,
                   registerRequestCounts, reqs>>

\* POST /api/auth/register
RegisterRequest(headers, handler) ==
    /\ OneKey(GetClientIP(RouteRequest(headers, NoHeader)))
    /\ LET request == RouteRequest(headers, NoHeader)
           stage == LimitedRoute(request, handler, RouteStore("register"))
       IN  /\ res' = [op |-> "register", route |-> "register", request |-> request,
                      handler |-> Ran(stage, handler), stage |-> stage]
           /\ registerRequestCounts' = CreateRateLimitStore(request, RouteStore("register"))
    /\ UNCHANGED <<now, env, loaded, users, tasks, cred, nodeEnv, requestCounts,
                   customRequestCounts, reqs>>

NextRoute ==
    \/ TickRoute
    \/ \E op \in ProtectedOps, headers \in RouteHeaders,
          authorization \in RouteAuthorizations, handler \in {"returns", "rejects"} :
          ProtectedRequest(op, headers, authorization, handler, "answers")
    \/ \E headers \in RouteHeaders : LoginRequest(headers, "returns")
    \/ \E headers \in RouteHeaders : RegisterRequest(headers, "returns")

----------------------------------------------------------------------------
(* Task routes: /api/tasks/[id] (src/app/api/tasks/[id]/route.js) *)

\* isOwnerOrAdmin(user, resourceUserId)
IsOwnerOrAdmin(user, resourceUserId) == user.role = "Admin" \/ user.id = resourceUserId

NotFoundResponse(message) == ErrorResponse(message, 404)

\* the body of a PUT: one that passes updateTaskSchema, one that does not (an empty title)
ValidBody == [valid |-> TRUE, title |-> "new"]
InvalidBody == [valid |-> FALSE, title |-> ""]
NoBody == [valid |-> FALSE, title |-> None]

\* what a terminal handler leaves: its response, and the task store
Handled(out, store) == [out |-> out, tasks |-> store]

(***************************************************************************)
(* db says whether the task store answers ("answers") or its first call    *)
(* fails ("fails"); each handler catches the failure and answers 500.      *)
(***************************************************************************)
GetTaskHandler(user, id, db) ==
    LET task == tasks[id] IN
    IF db = "fails"
        THEN Handled(InternalServerErrorResponse("Failed to retrieve task", "store failure"),
                     tasks)
    ELSE IF task = NoTask THEN Handled(NotFoundResponse("Task not found"), tasks)
    ELSE IF ~IsOwnerOrAdmin(user, task.userId)
        THEN Handled(ForbiddenResponse("You do not have permission to access this task"),
                     tasks)
    ELSE Handled(SuccessResponse(task, "Task retrieved successfully"), tasks)

NoOwnerCheckUpdateTaskHandler(user, id, body, db) ==
    LET existingTask == tasks[id]
        updatedTask == Task(existingTask.userId, body.title)
    IN  IF ~body.valid THEN Handled(BadRequestResponse("Validation failed"), tasks)
        ELSE IF db = "fails"
            THEN Handled(InternalServerErrorResponse("Failed to update task", "store failure"),
                         tasks)
        ELSE IF existingTask = NoTask THEN Handled(NotFoundResponse("Task not found"), tasks)
        ELSE Handled(SuccessResponse(updatedTask, "Task updated successfully"),
                     [tasks EXCEPT ![id] = updatedTask])

\* updateTaskHandler: the body is validated before the task is looked up
UpdateTaskHandler(user, id, body, db) ==
    LET existingTask == tasks[id]
        updatedTask == Task(existingTask.userId, body.title)
    IN  IF ~body.valid THEN Handled(BadRequestResponse("Validation failed"), tasks)
        ELSE IF db = "fails"
            THEN Handled(InternalServerErrorResponse("Failed to update task", "store failure"),
                         tasks)
        ELSE IF existingTask = NoTask THEN Handled(NotFoundResponse("Task not found"), tasks)
        ELSE IF ~IsOwnerOrAdmin(user, existingTask.userId)
            THEN Handled(ForbiddenResponse("You do not have permission to update this task"),
                         tasks)
        ELSE Handled(SuccessResponse(updatedTask, "Task updated successfully"),
                     [tasks EXCEPT ![id] = updatedTask])

DeleteTaskHandler(id, db) ==
    IF db = "fails"
        THEN Handled(InternalServerErrorResponse("Failed to delete task", "store failure"),
                     tasks)
    ELSE IF tasks[id] = NoTask THEN Handled(NotFoundResponse("Task not found"), tasks)
    ELSE Handled(SuccessResponse([deleted |-> id], "Task deleted successfully"),
                 [tasks EXCEPT ![id] = NoTask])

TaskOps == {"GET /api/tasks/[id]", "PUT /api/tasks/[id]", "DELETE /api/tasks/[id]"}

\* the terminal handler of each export, called with the request withAuth attached user to
TaskHandler(op, user, id, body, db) ==
    IF op = "GET /api/tasks/[id]" THEN GetTaskHandler(user, id, db)
    ELSE IF op = "PUT /api/tasks/[id]" THEN UpdateTaskHandler(user, id, body, db)
    ELSE DeleteTaskHandler(id, db)

(***************************************************************************)
(* export GET / PUT / DELETE of /api/tasks/[id]: the nesting of the        *)
(* protected routes, with the terminal handler of the operation.  The      *)
(* outcome is the stage, with the task store the request leaves.           *)
(***************************************************************************)
TaskRoute(op, request, id, body, db, counts) ==
    LET gate == WithAuth(request, "returns", AuthOptions(op), "answers")
        handled == TaskHandler(op, gate.user, id, body, db)
        auth == AuthStage(request, "returns", AuthOptions(op), "answers")
        inner == IF gate.invoked
                 THEN Stage(handled.out, auth.trace, auth.user, auth.gov, auth.headers,
                            auth.log)
                 ELSE auth
        stage == WithLogging(request, RateLimitStage(request, counts, inner))
    IN  [stage |-> stage,
         tasks |-> IF stage.gov.step # "reject" /\ gate.invoked THEN handled.tasks ELSE tasks]

----------------------------------------------------------------------------
(* The task machine: requests of one client to /api/tasks/[id] *)

\* the owner of the task: the client itself, or somebody else
TaskOwners == {"u1", "u2"}

InitTask ==
    /\ now = 0
    /\ env = [JWT_SECRET |-> "s1", JWT_REFRESH_SECRET |-> "s2"]
    /\ loaded = "ok"
    /\ users \in [UserIds -> Roles]
    /\ tasks \in [TaskIds -> {NoTask} \cup {Task(owner, "old") : owner \in TaskOwners}]
    /\ cred = Credential(NoHeader, "unset", "nobody", NoUser)
    /\ res = NoRes
    /\ nodeEnv \in {"production", "development"}
    /\ requestCounts = [ip \in Ips |-> NoEntry]
    /\ customRequestCounts = [ip \in Ips |-> NoEntry]
    /\ registerRequestCounts = [ip \in Ips |-> NoEntry]
    /\ reqs = [r \in Reqs |-> NewReq]

TickTask ==
    /\ now < MaxTime
    /\ now' = now + 1
    /\ res' = NoRes
    /\ UNCHANGED <<env, loaded, users, tasks, cred, nodeEnv, rateVars>>

\* a token whose signature matches no secret, with claims of the sender's choosing
ForgedToken(id, role) ==
    Jwt("bad", "access", ISSUER, AUDIENCE, {}, id, EmailOf(id), role, None)

(***************************************************************************)
(* The client sends no credential, the access token of a login made at     *)
(* this instant, or a forged token naming itself or somebody else.         *)
(***************************************************************************)
TaskAuthorizations ==
    {NoHeader, Bearer(GenerateAccessToken(Identity("u1", users["u1"]))),
     Bearer(ForgedToken("u1", "User")), Bearer(ForgedToken("u9", "Admin"))}

\* a request to /api/tasks/[id]; only a PUT carries a body
TaskRequest(op, id, authorization, body, db) ==
    /\ (op = "PUT /api/tasks/[id]") <=> (body # NoBody)
    /\ LET request == RouteRequest(Headers(<<>>, "10.0.0.2", "10.0.0.1"), authorization)
           served == TaskRoute(op, request, id, body, db, requestCounts)
       IN  /\ res' = [op |-> "task", route |-> op, request |-> request, id |-> id,
                      body |-> body, db |-> db, stage |-> served.stage,
                      before |-> tasks[id]]
           /\ tasks' = served.tasks
           /\ requestCounts' = RateLimitStore(request, requestCounts)
    /\ UNCHANGED <<now, env, loaded, users, cred, nodeEnv, customRequestCounts,
                   registerRequestCounts, reqs>>

NextTask ==
    \/ TickTask
    \/ \E op \in TaskOps, id \in TaskIds, authorization \in TaskAuthorizations,
          body \in {NoBody, ValidBody, InvalidBody}, db \in {"answers", "fails"} :
          TaskRequest(op, id, authorization, body, db)

vars == <<now, env, loaded, users, tasks, cred, res, nodeEnv, requestCounts, customRequestCounts,
          registerRequestCounts, reqs>>

SpecGate == InitGate /\ [][NextGate]_vars

SpecRate == InitRate /\ [][NextRate]_vars

SpecRoute == InitRoute /\ [][NextRoute]_vars

SpecTask == InitTask /\ [][NextTask]_vars

Spec == SpecRate

----------------------------------------------------------------------------
(* Properties of the token and gate machine *)

\* the token of the credential under consideration
Tok == cred.authorization.token

\* what the claim contract says of a token, stated apart from either verifier
SignedWith(token, secret) == token.form = "jwt" /\ token.key = secret
Unexpired(token) == \A exp \in token.exp : now < exp
ContractAccess(token) ==
    /\ SignedWith(token, env.JWT_SECRET) /\ Unexpired(token)
    /\ token.iss = ISSUER /\ token.aud = AUDIENCE /\ token.type = "access"
EdgeVerified(token) == SignedWith(token, env.JWT_SECRET) /\ Unexpired(token)
NoBearer == cred.authorization.scheme # "Bearer" \/ Tok.form = "empty"
NotAdminClaim(token) ==
    token.role # "Admin" /\ (token.role # None \/ token.roles # "Admin")
ListedPublic(path) ==
    path \in {<<"api", "auth", "register">>, <<"api", "auth", "login">>,
              <<"api", "auth", "refresh">>}
UnderUsers(path) == Len(path) >= 2 /\ path[1] = "api" /\ path[2] = "users"
UnderTasksSlash(path) == Len(path) >= 3 /\ path[1] = "api" /\ path[2] = "tasks"
\* the paths the Route Classification table lists as protected or adminOnly
ListedGuarded(path) ==
    UnderUsers(path) \/ UnderTasksSlash(path) \/ path = <<"api", "tasks">>

(***************************************************************************)
(* C3: withAuth maps each failure to a fixed outcome, in this order: no    *)
(* bearer credential gives 401 "No token provided"; an expired access      *)
(* token gives 401 naming expiry, a message other than the invalid-token   *)
(* one; a verified token whose subject has no record gives 401 "User not   *)
(* found"; a verified token whose stored role is not in a non-empty        *)
(* allowedRoles gives 403 naming the roles; only when none of these        *)
(* applies is the handler invoked, and in each rejecting case it is not.   *)
(***************************************************************************)
C3_WithAuthOutcomes ==
    res.op = "withAuth" =>
        LET g == res.gate
            roles == res.options.roles
            stored == users[Tok.id]
            Rejects(status, message) ==
                /\ IsResponse(g.out, status) /\ g.out.body.error = message
                /\ g.out.body.code = status /\ ~g.invoked
        IN  IF NoBearer THEN Rejects(401, "No token provided. Please login.")
            ELSE IF SignedWith(Tok, env.JWT_SECRET) /\ ~Unexpired(Tok)
                THEN Rejects(401, "Token has expired") /\ g.out.body.error # "Invalid token"
            ELSE IF ~ContractAccess(Tok) THEN IsResponse(g.out, 401) /\ ~g.invoked
            ELSE IF res.store = "fails" THEN ~g.invoked
            ELSE IF stored = None THEN Rejects(401, "User not found. Please login again.")
            ELSE IF res.options.given /\ roles # <<>>
                    /\ stored \notin {roles[i] : i \in 1..Len(roles)}
                THEN Rejects(403, RequiredRoleMessage(roles))
            ELSE g.invoked

C3_Witness ==
    /\ res.op = "withAuth" /\ ContractAccess(Tok) /\ res.store = "answers"
    /\ users[Tok.id] = "User" /\ res.options = WithRoles(<<"Admin">>)
    /\ IsResponse(res.gate.out, 403)

(***************************************************************************)
(* C4: Edge Gate decisions: a path classified public is forwarded with no  *)
(* credential; an adminOnly path with a verified token whose role is not   *)
(* Admin is rejected 403; a DELETE under /api/tasks/ with a verified token *)
(* whose role is not Admin is rejected 403 although the path is            *)
(* protected; a verified token with no role claim counts as role User.     *)
(***************************************************************************)
C4_EdgeDecisions ==
    res.op = "middleware" =>
        LET path == res.request.path
            out == res.out
        IN  /\ ListedPublic(path) => out.kind = "next"
            /\ (UnderUsers(path) /\ ~NoBearer /\ EdgeVerified(Tok) /\ NotAdminClaim(Tok))
                    => IsResponse(out, 403)
            /\ (res.request.method = "DELETE" /\ UnderTasksSlash(path) /\ ~NoBearer
                    /\ EdgeVerified(Tok) /\ NotAdminClaim(Tok))
                    => IsResponse(out, 403) /\ GetRouteType(path) = "protected"
            /\ (out.kind = "next" /\ ~NoBearer /\ EdgeVerified(Tok)
                    /\ ListedGuarded(path)
                    /\ Tok.role = None /\ Tok.roles = None)
                    => out.set["x-user-role"] = "User"

C4_Witness ==
    /\ res.op = "middleware" /\ res.request.method = "DELETE"
    /\ res.request.path = <<"api", "tasks", "42">>
    /\ ~NoBearer /\ EdgeVerified(Tok) /\ Tok.role = None /\ Tok.roles = None
    /\ IsResponse(res.out, 403)

(***************************************************************************)
(* C5: for the same secret and clock, verifyTokenEdge and                  *)
(* verifyAccessToken reach the same accept/reject decision on every token. *)
(***************************************************************************)
C5_SameDecision ==
    res.op = "verifyTokenEdge" => res.r.ok = VerifyAccessToken(Tok).ok

(***************************************************************************)
(* C6 as stated: verifyAccessToken of a freshly generated access token     *)
(* succeeds before expiry with the identity's id, email and role, and      *)
(* verifyRefreshToken of that token fails with "Invalid token type".       *)
(***************************************************************************)
IssuedAccessBeforeExpiry == cred.origin = "generateAccessToken" /\ Unexpired(Tok)

C6_AccessRoundTrip ==
    (res.op = "verifyAccessToken" /\ IssuedAccessBeforeExpiry) =>
        /\ res.r.ok
        /\ res.r.payload.id = cred.for.id
        /\ res.r.payload.email = cred.for.email
        /\ res.r.payload.role = cred.for.role

C7_RefreshNeverAccepted ==
    /\ (res.op = "middleware" /\ cred.origin = "generateRefreshToken"
            /\ ListedGuarded(res.request.path)) => res.out.kind = "response"
    /\ (res.op = "withAuth" /\ cred.origin = "generateRefreshToken") => ~res.gate.invoked
    /\ (res.op = "refresh" /\ cred.origin = "generateAccessToken") => res.r.issued = NoTokens

(***************************************************************************)
(* C8: every configuration the Token Service accepts at start-up has       *)
(* distinct secrets, so a token made by a party holding only one of the    *)
(* two secrets is not accepted by the verifier of the other kind.          *)
(***************************************************************************)
C8_SecretsIsolated ==
    /\ loaded = "ok" => env.JWT_SECRET # env.JWT_REFRESH_SECRET
    /\ (res.op = "verifyRefreshToken" /\ cred.origin = "crafted"
            /\ cred.holder = "JWT_SECRET") => ~res.r.ok
    /\ (res.op = "verifyAccessToken" /\ cred.origin = "crafted"
            /\ cred.holder = "JWT_REFRESH_SECRET") => ~res.r.ok

(***************************************************************************)
(* C9: the Edge Gate forwards a request without a verified bearer          *)
(* credential only when its path is listed public; every other /api path   *)
(* is rejected 401 when the credential is missing or fails verification.   *)
(***************************************************************************)
C9_OnlyListedPublicUnauthenticated ==
    (res.op = "middleware" /\ (NoBearer \/ ~EdgeVerified(Tok))) =>
        IF ListedPublic(res.request.path) THEN res.out.kind = "next"
        ELSE IsResponse(res.out, 401)

(***************************************************************************)
(* C10: the Authentication Gate fails closed: when the identity lookup     *)
(* fails, withAuth returns the 401 "Authentication failed", raises         *)
(* nothing, and does not invoke the handler.                               *)
(***************************************************************************)
C10_FailsClosed ==
    (res.op = "withAuth" /\ res.store = "fails" /\ ~NoBearer /\ ContractAccess(Tok)) =>
        /\ IsResponse(res.gate.out, 401)
        /\ res.gate.out.body.error = "Authentication failed"
        /\ ~res.gate.invoked

C10_Witness ==
    /\ res.op = "withAuth" /\ res.store = "fails" /\ ~NoBearer /\ ContractAccess(Tok)
    /\ res.handler = "rejects" /\ IsResponse(res.gate.out, 401)

----------------------------------------------------------------------------
(* Properties of the governor machine *)

\* the fixed-window reading of the request log, stated apart from the stores
Evaluated(r) == reqs[r].pc # "new" /\ reqs[r].step # "bypass"
SameKey(q, r) == reqs[q].gov = reqs[r].gov /\ reqs[q].ip = reqs[r].ip
LimitOf(gov) == IF gov = "default" THEN MAX_REQUESTS ELSE maxRequests
WindowOf(gov) == IF gov = "default" THEN WINDOW_MS ELSE windowMs
StoreOf(gov) == IF gov = "default" THEN requestCounts ELSE customRequestCounts

Earlier(r) == {q \in Reqs : q < r /\ Evaluated(q) /\ SameKey(q, r)}

\* the latest earlier request of the same governor and key, 0 when there is none
Prev(r) == IF Earlier(r) = {} THEN 0 ELSE CHOOSE q \in Earlier(r) : \A p \in Earlier(r) : p <= q

RECURSIVE WindowStart(_)
\* the instant the window of request r opened
WindowStart(r) ==
    LET prev == Prev(r) IN
    IF prev = 0 THEN reqs[r].at
    ELSE LET start == WindowStart(prev) IN
         IF reqs[r].at > start + WindowOf(reqs[r].gov) THEN reqs[r].at ELSE start

\* r is the first request evaluated after the window of its predecessors elapsed
AfterElapsed(r) ==
    LET prev == Prev(r) IN
    prev # 0 /\ reqs[r].at > WindowStart(prev) + WindowOf(reqs[r].gov)

\* the requests of r's governor and key evaluated in r's window, r included or not
InWindow(r) == LET start == WindowStart(r) IN {q \in Earlier(r) : WindowStart(q) = start}
AdmittedIn(S) == {q \in S : reqs[q].allowed}

Min(a, b) == IF a < b THEN a ELSE b

(***************************************************************************)
(* C1: for either governor, with limit L and window W, and any key: of the *)
(* requests evaluated within one window the first L are admitted and every *)
(* later one is rejected; the first request evaluated after the window has *)
(* elapsed is admitted and leaves the entry with count = 1.                *)
(***************************************************************************)
C1_FixedWindow ==
    \A r \in Reqs : Evaluated(r) =>
        /\ reqs[r].allowed <=> Cardinality(InWindow(r)) < LimitOf(reqs[r].gov)
        /\ AfterElapsed(r) => reqs[r].allowed /\ reqs[r].count = 1

C1_Witness ==
    /\ \A r \in Reqs : Evaluated(r) /\ reqs[r].gov = "default" /\ reqs[r].ip = "10.0.0.1"
    /\ reqs[1].allowed /\ ~reqs[2].allowed /\ reqs[2].at > reqs[1].at
    /\ AfterElapsed(3) /\ reqs[3].allowed /\ reqs[3].count = 1
    /\ requestCounts["10.0.0.1"].count = 1

(***************************************************************************)
(* C2: when M requests sharing one key are in flight inside one window on  *)
(* a governor with limit N, their handlers settling in any order, exactly  *)
(* min(M, N) are admitted and have their handler invoked, the rest are     *)
(* rejected, and the entry's count loses no update; for both governors.    *)
(***************************************************************************)
C2_ConcurrentAdmission ==
    \A r \in Reqs : Evaluated(r) =>
        LET group == InWindow(r) \cup {r}
            later == {q \in Reqs : q > r /\ Evaluated(q) /\ SameKey(q, r)}
            entry == StoreOf(reqs[r].gov)[reqs[r].ip]
        IN  /\ reqs[r].invoked <=> reqs[r].allowed
            /\ reqs[r].allowed => reqs[r].pc \in {"handler", "done"}
            /\ ~reqs[r].allowed => reqs[r].pc = "done" /\ IsResponse(reqs[r].out, 429)
            /\ Cardinality(AdmittedIn(group))
                  = Min(Cardinality(group), LimitOf(reqs[r].gov))
            /\ (later = {} /\ entry # NoEntry
                    /\ entry.resetTime = WindowStart(r) + WindowOf(reqs[r].gov))
                  => entry.count = Cardinality(AdmittedIn(group))

C2_Witness ==
    /\ \A r \in Reqs : Evaluated(r) /\ reqs[r].gov = "custom" /\ reqs[r].ip = "10.0.0.1"
                        /\ reqs[r].at = 0
    /\ reqs[1].pc = "handler" /\ reqs[2].pc = "done" /\ reqs[2].allowed
    /\ ~reqs[3].allowed /\ nodeEnv = "production"
    /\ customRequestCounts["10.0.0.1"].count = maxRequests

----------------------------------------------------------------------------
(* Properties of the route machine *)

\* the order of the stages and of the collaborators the Authentication Gate calls
FullTrace ==
    <<"withLogging", "withRateLimit", "withAuth", "verifyAccessToken", "findUnique", "handler">>

InTrace(trace, name) == \E i \in 1..Len(trace) : trace[i] = name

\* the count the key has used of its current window, 0 when the window has passed
Used(store, ip, window) ==
    IF store[ip] = NoEntry \/ now > store[ip].resetTime THEN 0 ELSE store[ip].count

\* the request was admitted by the governor and turned down by the Authentication Gate
RejectedByAuth(stage) ==
    /\ stage.gov.step = "await"
    /\ ~InTrace(stage.trace, "handler")
    /\ stage.out.kind = "response" /\ stage.out.status \in {401, 403}

C11_StageOrder ==
    res.op = "protected" =>
        LET stage == res.stage IN
        /\ Len(stage.trace) >= 2 /\ Len(stage.trace) <= Len(FullTrace)
        /\ \A i \in 1..Len(stage.trace) : stage.trace[i] = FullTrace[i]
        /\ stage.gov.step = "reject" =>
              /\ IsResponse(stage.out, 429)
              /\ stage.trace = <<"withLogging", "withRateLimit">>
        /\ stage.gov.step # "reject" => Len(stage.trace) >= 3
        /\ RejectedByAuth(stage) =>
              /\ stage.gov.count >= 1
              /\ requestCounts[stage.gov.ip].count = stage.gov.count

C11_QuotaConsumed ==
    res'.op = "protected" /\ RejectedByAuth(res'.stage) =>
        requestCounts'[res'.stage.gov.ip].count
            = Used(requestCounts, res'.stage.gov.ip, WINDOW_MS) + 1

(***************************************************************************)
(* C11: every protected operation runs Logger, Rate Governor,              *)
(* Authentication Gate, terminal handler in this order: a rate-limited     *)
(* request gets 429 with no token verification and no identity lookup, and *)
(* a request the governor evaluated and the Authentication Gate then       *)
(* rejected has consumed one unit of its key's quota.                      *)
(***************************************************************************)
C11_ComposerOrder == [](C11_StageOrder) /\ [][C11_QuotaConsumed]_vars

C11_Witness ==
    /\ res.op = "protected"
    /\ res.stage.gov.step = "reject"
    /\ res.request.headers.authorization = Bearer(IssuedAtStart.accessToken)
    /\ now < JWT_ACCESS_EXPIRES_IN
    /\ res.stage.trace = <<"withLogging", "withRateLimit">>
    /\ requestCounts[res.stage.gov.ip].count = MAX_REQUESTS

----------------------------------------------------------------------------
(* Properties of the governors' entries *)

\* a step changed the window of an entry the store held before and holds after
WindowChanged(old, new) ==
    old # NoEntry /\ new # NoEntry /\ (new.resetTime # old.resetTime \/ new.count < old.count)

\* the reset the entry invariant describes: time has passed resetTime, one window is added
AdvancedByWindow(old, new, window) ==
    /\ now > old.resetTime
    /\ new.resetTime = old.resetTime + window
    /\ new.count <= 1

(***************************************************************************)
(* C12: for every key of every governor, count is reset to 0 and resetTime *)
(* becomes the previous resetTime plus the window length when an admit is  *)
(* evaluated after resetTime has passed, and in no other circumstance.     *)
(***************************************************************************)
C12_ResetAdvancesByWindow ==
    [][\A ip \in Ips :
        /\ WindowChanged(requestCounts[ip], requestCounts'[ip])
              => AdvancedByWindow(requestCounts[ip], requestCounts'[ip], WINDOW_MS)
        /\ WindowChanged(customRequestCounts[ip], customRequestCounts'[ip])
              => AdvancedByWindow(customRequestCounts[ip], customRequestCounts'[ip], windowMs)
      ]_vars

\* an entry whose resetTime has passed (now > data.resetTime)
Expired(entry) == entry # NoEntry /\ now > entry.resetTime

\* what a sweep of one store has to leave: no expired entry, the others as they were
Swept(old, new) ==
    \A ip \in Ips : ~Expired(new[ip]) /\ (~Expired(old[ip]) => new[ip] = old[ip])

(***************************************************************************)
(* C13: after a run of the periodic sweep no governor, the default one or  *)
(* one built by createRateLimit, holds an entry whose resetTime has        *)
(* passed, and entries whose resetTime has not passed are left unchanged.  *)
(***************************************************************************)
C13_EveryGovernorSwept ==
    [][Sweep => /\ Swept(requestCounts, requestCounts')
                /\ Swept(customRequestCounts, customRequestCounts')
                /\ Swept(registerRequestCounts, registerRequestCounts')]_vars

----------------------------------------------------------------------------
(* Properties of the key *)

\* forwarded-for's first entry, then x-real-ip, then cf-connecting-ip, then 'unknown'
KeyByPrecedence(h) ==
    IF h.forwarded # <<>> THEN h.forwarded[1]
    ELSE IF h.realIP # None THEN h.realIP
    ELSE IF h.cloudflareIP # None THEN h.cloudflareIP
    ELSE "unknown"

(***************************************************************************)
(* C14: the key of a request is the first entry of the forwarded-for       *)
(* header if present, otherwise x-real-ip if present, otherwise            *)
(* cf-connecting-ip if present, otherwise 'unknown': a request with both   *)
(* x-real-ip and cf-connecting-ip and no forwarded-for is keyed by         *)
(* x-real-ip.                                                              *)
(***************************************************************************)
C14_KeyPrecedence ==
    res.op = "protected" =>
        /\ res.stage.gov.ip = KeyByPrecedence(res.request.headers)
        /\ res.stage.log.ip = KeyByPrecedence(res.request.headers)

----------------------------------------------------------------------------
(* Properties of the bypass *)

\* request r is received in this step
Received(r) == reqs[r].pc = "new" /\ reqs'[r].pc # "new"

C15_BypassOnlyWhenDue ==
    \A r \in Reqs : reqs[r].pc # "new" =>
        /\ reqs[r].step = "bypass" <=> (nodeEnv = "development" /\ reqs[r].ip \in Loopback)
        /\ reqs[r].step = "bypass" => reqs[r].invoked

C15_CountedUnlessBypassed ==
    \A r \in Reqs : Received(r) =>
        LET ip == reqs'[r].ip
            default == reqs'[r].gov = "default"
            old == IF default THEN requestCounts[ip] ELSE customRequestCounts[ip]
            new == IF default THEN requestCounts'[ip] ELSE customRequestCounts'[ip]
            used == IF old = NoEntry \/ now > old.resetTime THEN 0 ELSE old.count
        IN  IF reqs'[r].step = "bypass"
            THEN requestCounts' = requestCounts /\ customRequestCounts' = customRequestCounts
            ELSE /\ new # NoEntry
                 /\ new.count = IF reqs'[r].allowed THEN used + 1 ELSE used
                 /\ reqs'[r].allowed <=> used < LimitOf(reqs'[r].gov)

(***************************************************************************)
(* C15: a request bypasses a governor (handler invoked, no entry created,  *)
(* read or incremented) if and only if the posture is development and the  *)
(* key is a loopback address; otherwise every request, loopback included,  *)
(* is evaluated by admit and counted; for withRateLimit and createRateLimit.*)
(***************************************************************************)
C15_NarrowBypass == [](C15_BypassOnlyWhenDue) /\ [][C15_CountedUnlessBypassed]_vars

C15_Witness ==
    /\ nodeEnv = "development"
    /\ reqs[1].gov = "default" /\ reqs[1].step = "bypass" /\ reqs[1].ip = "127.0.0.1"
    /\ reqs[2].gov = "custom" /\ reqs[2].step = "bypass" /\ reqs[2].ip = "127.0.0.1"
    /\ reqs[1].invoked /\ reqs[2].invoked
    /\ requestCounts["127.0.0.1"] = NoEntry /\ customRequestCounts["127.0.0.1"] = NoEntry
    /\ reqs[3].gov = "default" /\ reqs[3].step = "await" /\ reqs[3].ip = "10.0.0.1"
    /\ requestCounts["10.0.0.1"].count = 1

----------------------------------------------------------------------------
(* Properties of the optional gate, the refresh endpoint and the stored role *)

(***************************************************************************)
(* C16: withOptionalAuth never rejects: whatever the credential (no        *)
(* header, malformed, invalid, expired, wrong kind), a missing record or a *)
(* failing store, the handler is invoked and what it returns is returned;  *)
(* an identity is attached if and only if the access token verifies and    *)
(* the store returns a record for its subject.                             *)
(***************************************************************************)
C16_OptionalNeverRejects ==
    res.op = "withOptionalAuth" =>
        LET g == res.gate
            found == /\ ContractAccess(Tok) /\ res.store = "answers"
                     /\ users[Tok.id] # None
        IN  /\ g.invoked
            /\ g.out = HandlerOutcome(res.handler)
            /\ res.handler = "returns" => IsResponse(g.out, 200)
            /\ g.user # NoUser <=> (~NoBearer /\ found)
            /\ g.user # NoUser => g.user = Identity(Tok.id, users[Tok.id])

C16_Witness ==
    /\ res.op = "withOptionalAuth" /\ res.handler = "returns"
    /\ ~NoBearer /\ SignedWith(Tok, env.JWT_SECRET) /\ ~Unexpired(Tok)
    /\ res.gate.invoked /\ IsResponse(res.gate.out, 200) /\ res.gate.user = NoUser

----------------------------------------------------------------------------
(* Properties of the rejection *)

\* the instant an ISO-8601 string denotes
ParseISO(iso) == iso.dateTime * 1000 + iso.millis

\* the whole seconds that cover ms milliseconds
WholeSeconds(ms) == CHOOSE k \in 0..(ms + 1) : k * 1000 >= ms /\ (k = 0 \/ (k - 1) * 1000 < ms)

C17_Envelope ==
    \A r \in Reqs : (reqs[r].pc # "new" /\ ~reqs[r].allowed) =>
        LET out == reqs[r].out IN
        /\ reqs[r].pc = "done" /\ ~reqs[r].invoked
        /\ IsResponse(out, 429)
        /\ out.body.success = FALSE /\ out.body.code = 429
        /\ out.body.error = "Too many requests. Please try again later."
        /\ out.body.details.limit = LimitOf(reqs[r].gov)
        /\ out.body.details.remaining = 0
        /\ out.body.details.retryAfter >= 0

C17_AtRejection ==
    \A r \in Reqs : (Received(r) /\ ~reqs'[r].allowed) =>
        LET ip == reqs'[r].ip
            default == reqs'[r].gov = "default"
            old == IF default THEN requestCounts[ip] ELSE customRequestCounts[ip]
            new == IF default THEN requestCounts'[ip] ELSE customRequestCounts'[ip]
            details == reqs'[r].out.body.details
        IN  /\ old # NoEntry /\ new = old
            /\ ParseISO(details.resetTime) = new.resetTime
            /\ new.resetTime >= now
            /\ details.retryAfter = WholeSeconds(new.resetTime - now)

(***************************************************************************)
(* C17: a request rejected by a governor gets 429 with body {success:      *)
(* false, error, code: 429} and details {limit: the governor's limit,      *)
(* remaining: 0, resetTime: the key's current resetTime, retryAfter: the   *)
(* whole seconds until it, never negative}; the handler is not invoked and *)
(* the key's count is unchanged.                                           *)
(***************************************************************************)
C17_RejectionResponse == [](C17_Envelope) /\ [][C17_AtRejection]_vars

C17_Witness ==
    /\ \A r \in Reqs : reqs[r].gov = "custom" /\ reqs[r].ip = reqs[1].ip
    /\ reqs[1].allowed /\ reqs[2].allowed
    /\ reqs[3].pc = "done" /\ ~reqs[3].allowed /\ reqs[3].at = 1
    /\ reqs[3].out.body.details.retryAfter = 1
    /\ reqs[3].out.body.details.limit = maxRequests
    /\ customRequestCounts[reqs[3].ip].count = maxRequests

\* what the claim contract says of a refresh token
ContractRefresh(token) ==
    /\ SignedWith(token, env.JWT_REFRESH_SECRET) /\ Unexpired(token)
    /\ token.iss = ISSUER /\ token.aud = AUDIENCE /\ token.type = "refresh"

(***************************************************************************)
(* C18: for an identity present in the store, posting a valid unexpired    *)
(* refresh token issued for it returns a new pair whose access token       *)
(* verifyAccessToken accepts, with id, email and role equal to the stored  *)
(* values; if the refresh token fails verification or the identity no      *)
(* longer exists, the answer is 401 and no tokens are issued.              *)
(***************************************************************************)
C18_RefreshFlow ==
    res.op = "refresh" =>
        LET r == res.r
            access == r.issued.accessToken
            verified == VerifyAccessToken(access)
        IN  /\ (cred.origin = "generateRefreshToken" /\ Unexpired(Tok)
                    /\ res.store = "answers" /\ users[Tok.id] # None)
                  => /\ IsResponse(r.out, 200)
                     /\ ContractAccess(access) /\ verified.ok
                     /\ verified.payload.id = Tok.id
                     /\ verified.payload.email = EmailOf(Tok.id)
                     /\ verified.payload.role = users[Tok.id]
                     /\ ContractRefresh(r.issued.refreshToken)
            /\ (~NoBearer /\ ~ContractRefresh(Tok))
                  => IsResponse(r.out, 401) /\ r.issued = NoTokens
            /\ (~NoBearer /\ ContractRefresh(Tok) /\ res.store = "answers"
                    /\ users[Tok.id] = None)
                  => IsResponse(r.out, 401) /\ r.issued = NoTokens

C18_Witness ==
    /\ res.op = "refresh" /\ cred.origin = "generateRefreshToken" /\ Unexpired(Tok)
    /\ res.store = "answers" /\ users[Tok.id] = "Admin" /\ cred.for.role = "User"
    /\ IsResponse(res.r.out, 200)
    /\ res.r.issued.accessToken.role = "Admin"
    /\ now > 0

(***************************************************************************)
(* C19: whenever withAuth invokes the handler, the identity attached is    *)
(* the record the store returned for the token's subject in that request,  *)
(* and the role decision uses that record's role, never the token's role   *)
(* claim: role claim Admin with stored role User is rejected 403 by        *)
(* requireAdmin, role claim User with stored role Admin is admitted; with  *)
(* allowedRoles absent or empty every stored role is admitted.             *)
(***************************************************************************)
C19_StoredRoleDecides ==
    res.op = "withAuth" =>
        LET g == res.gate
            roles == res.options.roles
            looked == ~NoBearer /\ ContractAccess(Tok) /\ res.store = "answers"
            stored == users[Tok.id]
        IN  /\ g.invoked =>
                  /\ looked /\ stored # None
                  /\ g.user = Identity(Tok.id, stored)
            /\ (looked /\ stored # None) =>
                  /\ g.invoked <=> (~res.options.given \/ roles = <<>>
                                      \/ stored \in {roles[i] : i \in 1..Len(roles)})
                  /\ ~g.invoked => IsResponse(g.out, 403)
            /\ (looked /\ res.options = WithRoles(<<"Admin">>)) =>
                  /\ (Tok.role = "Admin" /\ stored = "User")
                        => IsResponse(g.out, 403) /\ ~g.invoked
                  /\ (Tok.role = "User" /\ stored = "Admin") => g.invoked

C19_Witness ==
    /\ res.op = "withAuth" /\ res.options = WithRoles(<<"Admin">>)
    /\ ~NoBearer /\ ContractAccess(Tok) /\ res.store = "answers"
    /\ Tok.role = "User" /\ users[Tok.id] = "Admin"
    /\ res.gate.invoked /\ res.gate.user.role = "Admin"
    /\ res.handler = "returns" /\ IsResponse(res.gate.out, 200)

----------------------------------------------------------------------------
(* Properties of the governors' independence *)

\* the governor of the request just served admitted it
AdmittedByGovernor(stage) == stage.gov.step = "await"
EvaluatedByGovernor(stage) == stage.gov.step \in {"await", "reject"}

C20_OwnStoreOnly ==
    /\ res'.op = "protected" =>
          /\ customRequestCounts' = customRequestCounts
          /\ registerRequestCounts' = registerRequestCounts
          /\ EvaluatedByGovernor(res'.stage) =>
                (AdmittedByGovernor(res'.stage)
                    <=> Used(requestCounts, res'.stage.gov.ip, WINDOW_MS) < MAX_REQUESTS)
    /\ res'.op = "login" =>
          /\ requestCounts' = requestCounts
          /\ registerRequestCounts' = registerRequestCounts
          /\ EvaluatedByGovernor(res'.stage) =>
                (AdmittedByGovernor(res'.stage)
                    <=> Used(customRequestCounts, res'.stage.gov.ip, windowMs) < maxRequests)
    /\ res'.op = "register" =>
          /\ requestCounts' = requestCounts
          /\ customRequestCounts' = customRequestCounts
          /\ EvaluatedByGovernor(res'.stage) =>
                (AdmittedByGovernor(res'.stage)
                    <=> Used(registerRequestCounts, res'.stage.gov.ip, windowMs) < maxRequests)

(***************************************************************************)
(* C20: governors have independent state: an admit on a governor built by  *)
(* createRateLimit never creates or changes an entry of the default        *)
(* governor or of another route-scoped governor, and an admit on the       *)
(* default governor never changes a route-scoped one; exhausting the login *)
(* limit for a key leaves its quota on every other endpoint unchanged.     *)
(***************************************************************************)
C20_IndependentGovernors == [][C20_OwnStoreOnly]_vars

C20_Witness ==
    /\ res.op = "register" /\ res.stage.gov.step = "await"
    /\ res.stage.gov.ip = "10.0.0.1" /\ nodeEnv = "production"
    /\ customRequestCounts["10.0.0.1"].count = maxRequests
    /\ now <= customRequestCounts["10.0.0.1"].resetTime
    /\ registerRequestCounts["10.0.0.1"].count = 1
    /\ requestCounts["10.0.0.1"].count = 1
    /\ now <= requestCounts["10.0.0.1"].resetTime

----------------------------------------------------------------------------
(* Properties of failure propagation *)

(***************************************************************************)
(* C21: a failure of the terminal handler is never turned into a response  *)
(* by the Authentication Gate: whether the handler throws before returning *)
(* a promise or returns a promise that rejects, withAuth raises that       *)
(* failure to its caller, and never answers it with a 401.                 *)
(***************************************************************************)
C21_HandlerFailureReraised ==
    (res.op = "withAuth" /\ res.gate.invoked /\ res.handler \in {"throws", "rejects"}) =>
        /\ res.gate.out = Raised("handler failure")
        /\ ~IsResponse(res.gate.out, 401)

\* the Map and the limit of the governor of a route
GovernorOf(route) ==
    IF route = "login" THEN [store |-> customRequestCounts, limit |-> maxRequests]
    ELSE IF route = "register" THEN [store |-> registerRequestCounts, limit |-> maxRequests]
    ELSE [store |-> requestCounts, limit |-> MAX_REQUESTS]

(***************************************************************************)
(* What the stage withLogging wraps returned or raised in the request just *)
(* served: the governor's 429 when it rejected (a rejection leaves the     *)
(* entry as it was), otherwise what the stage behind the governor did.     *)
(***************************************************************************)
Wrapped(route, request, handler, gov) ==
    IF gov.step = "reject"
    THEN TooManyRequestsResponse("Too many requests. Please try again later.",
             RateLimitDetails(GovernorOf(route).limit,
                              GovernorOf(route).store[gov.ip].resetTime))
    ELSE IF route \in {"login", "register"} THEN HandlerOutcome(handler)
    ELSE WithAuth(request, handler, AuthOptions(route), "answers").out

(***************************************************************************)
(* C22: withLogging is transparent to the outcome: a response of the       *)
(* wrapped stage is returned as it is, with its status unchanged; a        *)
(* failure of the wrapped stage is recorded (status 500) and the same      *)
(* failure is raised to the caller, never a response in its place.         *)
(***************************************************************************)
C22_LoggingTransparent ==
    res.op \in {"protected", "login", "register"} =>
        LET stage == res.stage
            wrapped == Wrapped(res.route, res.request, res.handler, stage.gov)
        IN  /\ stage.out = wrapped
            /\ wrapped.kind = "response" =>
                  /\ stage.out.kind = "response"
                  /\ stage.out.status = wrapped.status
                  /\ stage.log.status = wrapped.status
            /\ wrapped.kind = "raised" =>
                  /\ stage.out.kind = "raised"
                  /\ stage.out.error = wrapped.error
                  /\ stage.log.status = 500

C22_Witness ==
    /\ res.op = "protected" /\ res.handler = "rejects"
    /\ InTrace(res.stage.trace, "handler")
    /\ res.stage.out = Raised("handler failure")
    /\ res.stage.log.status = 500
    /\ res.stage.log.userId = "u1"

----------------------------------------------------------------------------
(* Properties of the entries' counts *)

\* every entry a store holds has a count between 0 and the limit
CountsWithin(store, limit) ==
    \A ip \in Ips : store[ip] # NoEntry => 0 <= store[ip].count /\ store[ip].count <= limit

C23_CountBounded ==
    /\ CountsWithin(requestCounts, MAX_REQUESTS)
    /\ CountsWithin(customRequestCounts, maxRequests)

\* the count admit compares with the limit: that of the entry, 0 for a new or elapsed one
CountAtEvaluation(entry) == IF entry = NoEntry \/ now > entry.resetTime THEN 0 ELSE entry.count

C23_AdmitStep ==
    \A r \in Reqs : (Received(r) /\ reqs'[r].step # "bypass") =>
        LET ip == reqs'[r].ip
            gov == reqs'[r].gov
            old == IF gov = "default" THEN requestCounts[ip] ELSE customRequestCounts[ip]
            new == IF gov = "default" THEN requestCounts'[ip] ELSE customRequestCounts'[ip]
        IN  /\ reqs'[r].allowed <=> CountAtEvaluation(old) < LimitOf(gov)
            /\ reqs'[r].allowed => new.count = CountAtEvaluation(old) + 1
            /\ ~reqs'[r].allowed =>
                  /\ new.count = old.count
                  /\ new.resetTime = old.resetTime
            /\ \A other \in Ips \ {ip} :
                  /\ requestCounts'[other] = requestCounts[other]
                  /\ customRequestCounts'[other] = customRequestCounts[other]

(***************************************************************************)
(* C23: in every reachable state of every governor each entry has          *)
(* 0 <= count <= limit; a request is admitted if and only if count < limit *)
(* when it is evaluated, an admitted request raises count by exactly 1,    *)
(* and a rejected request changes neither count nor resetTime.             *)
(***************************************************************************)
C23_CountInvariant == [](C23_CountBounded) /\ [][C23_AdmitStep]_vars

C23_Witness ==
    /\ nodeEnv = "production"
    /\ \A r \in Reqs : reqs[r].pc # "new" /\ reqs[r].ip = "127.0.0.1" /\ reqs[r].at = 1
    /\ reqs[1].gov = "custom" /\ reqs[1].allowed
    /\ reqs[2].gov = "default" /\ reqs[2].allowed
    /\ reqs[3].gov = "default" /\ ~reqs[3].allowed
    /\ requestCounts["127.0.0.1"] = Entry(MAX_REQUESTS, 1 + WINDOW_MS)
    /\ customRequestCounts["127.0.0.1"] = Entry(1, 1 + windowMs)

----------------------------------------------------------------------------
(* Properties of the sweep *)

\* the admit calls of the default governor, in order of arrival
Admit(r) == reqs[r].pc # "new" /\ reqs[r].gov = "default" /\ reqs[r].step # "bypass"

(***************************************************************************)
(* The run with no sweep at all: the admit calls of the request log are    *)
(* replayed, each at the instant it was made, on a store nothing is ever   *)
(* removed from.  Decide(store, ip, t) is the decision of one call,        *)
(* NoSweepStore(r) the store after the calls up to request r.              *)
(***************************************************************************)
Decide(store, ip, t) ==
    LET data == IF store[ip] = NoEntry \/ t > store[ip].resetTime
                THEN Entry(0, t + WINDOW_MS) ELSE store[ip]
        allowed == data.count < MAX_REQUESTS
        count == IF allowed THEN data.count + 1 ELSE data.count
    IN  [store |-> [store EXCEPT ![ip] = Entry(count, data.resetTime)],
         allowed |-> allowed,
         remaining |-> Max0(MAX_REQUESTS - count),
         resetTime |-> data.resetTime]

RECURSIVE NoSweepStore(_)
NoSweepStore(r) ==
    IF r = 0 THEN [ip \in Ips |-> NoEntry]
    ELSE LET before == NoSweepStore(r - 1) IN
         IF Admit(r) THEN Decide(before, reqs[r].ip, reqs[r].at).store ELSE before

(***************************************************************************)
(* C24: the periodic sweep is invisible to admission: wherever sweep runs  *)
(* are placed between the admit calls, each call's decision (allowed,      *)
(* remaining, resetTime) is the one the same calls at the same times get   *)
(* with no sweep at all.                                                   *)
(***************************************************************************)
C24_SweepInvisible ==
    \A r \in Reqs : Admit(r) =>
        LET d == Decide(NoSweepStore(r - 1), reqs[r].ip, reqs[r].at)
        IN  /\ reqs[r].allowed = d.allowed
            /\ reqs[r].remaining = d.remaining
            /\ reqs[r].resetTime = d.resetTime

C24_Witness ==
    /\ nodeEnv = "production" /\ now = 1 + WINDOW_MS
    /\ \A r \in Reqs : Admit(r)
    /\ reqs[1].ip = "10.0.0.1" /\ reqs[1].at = 0
    /\ reqs[2].ip = "127.0.0.1" /\ reqs[2].at = 0
    /\ reqs[3].ip = "10.0.0.1" /\ reqs[3].at = now
    /\ requestCounts["127.0.0.1"] = NoEntry
    /\ reqs[3].allowed /\ reqs[3].remaining = MAX_REQUESTS - 1
    /\ reqs[3].resetTime = now + WINDOW_MS
    /\ requestCounts["10.0.0.1"] = Entry(1, now + WINDOW_MS)

----------------------------------------------------------------------------
(* Properties of the rate-limit headers *)

\* the response of request r carries the rate-limit headers
HasRateLimitHeaders(r) ==
    reqs[r].pc = "done" /\ reqs[r].allowed /\ reqs[r].step = "await"

\* the headers the window of request r determines
HeadersByWindow(r) ==
    LET limit == LimitOf(reqs[r].gov)
    IN  RateLimitHeaders(limit,
                         limit - Cardinality(AdmittedIn(InWindow(r) \cup {r})),
                         WindowStart(r) + WindowOf(reqs[r].gov))

(***************************************************************************)
(* C25: on the response of every admitted request, of withRateLimit and of *)
(* a governor built by createRateLimit, X-RateLimit-Limit is the limit,    *)
(* X-RateLimit-Remaining the limit minus the requests admitted for the key *)
(* in its window up to and including this one, and X-RateLimit-Reset the   *)
(* window's resetTime, whatever is admitted on the key while the handler   *)
(* of the request is running.                                              *)
(***************************************************************************)
C25_HeadersOfAdmission ==
    \A r \in Reqs : HasRateLimitHeaders(r) => reqs[r].out.headers = HeadersByWindow(r)

----------------------------------------------------------------------------
(* Properties of the identity metadata *)

\* the claim an identity header stands for; an absent role claim counts as User
ClaimFor(token, name) ==
    CASE name = "x-user-id" -> token.id
      [] name = "x-user-email" -> token.email
      [] OTHER -> Or(Or(token.role, token.roles), "User")

(***************************************************************************)
(* C26: for every request the Edge Gate forwards, each of x-user-id,       *)
(* x-user-email and x-user-role present on the forwarded request equals    *)
(* the corresponding claim of a token the Edge Verifier accepted; a value  *)
(* the client supplied for one of these headers never reaches the next     *)
(* layer, on public routes and where the claim is absent alike.            *)
(***************************************************************************)
C26_IdentityFromVerifiedClaims ==
    (res.op = "middleware" /\ res.out.kind = "next") =>
        \A name \in DOMAIN res.out.headers :
            /\ ~NoBearer /\ EdgeVerified(Tok)
            /\ res.out.headers[name] = ClaimFor(Tok, name)

----------------------------------------------------------------------------
(* Properties of the task routes *)

\* the request just served reached the terminal handler of its route
ReachedHandler == InTrace(res.stage.trace, "handler")

----------------------------------------------------------------------------
(* Properties of the token lifecycle *)

\* the credential is a token the Token Service issued, and its exp has not been reached
IssuedUnexpired(origin) == loaded = "ok" /\ cred.origin = origin /\ Unexpired(Tok)

\* what the three verifiers and the refresh endpoint make of the credential
Verdicts ==
    [access |-> VerifyAccessToken(Tok), refresh |-> VerifyRefreshToken(Tok),
     edge |-> VerifyTokenEdge(Tok),
     exchange |-> RefreshHandler([refreshToken |-> Tok], "answers").out]

C28_StillAccepted ==
    /\ IssuedUnexpired("generateAccessToken") =>
          /\ VerifyAccessToken(Tok).ok
          /\ VerifyAccessToken(Tok).payload.id = cred.for.id
          /\ (res.op = "withAuth" /\ res.store = "answers" /\ users[Tok.id] # None
                  /\ res.options = NoOptions) => res.gate.invoked
    /\ IssuedUnexpired("generateRefreshToken") =>
          /\ VerifyRefreshToken(Tok).ok
          /\ users[Tok.id] # None =>
                IsResponse(RefreshHandler([refreshToken |-> Tok], "answers").out, 200)
          /\ (res.op = "refresh" /\ res.store = "answers" /\ users[Tok.id] # None) =>
                /\ IsResponse(res.r.out, 200)
                /\ res.r.issued # NoTokens

\* a step that is not the passing of time leaves the verdicts on the credential as they were
C28_NoInvalidation ==
    (cred' = cred /\ cred.authorization.scheme = "Bearer" /\ loaded = "ok" /\ now' = now)
        => Verdicts' = Verdicts

(***************************************************************************)
(* C28: token validity is a function of signature, time window and claims  *)
(* only: no operation invalidates an issued token, so after any sequence   *)
(* of operations an access or refresh token of an existing identity is     *)
(* accepted until its own expiry, and one refresh token is exchanged for a *)
(* new pair as often as it is presented.                                   *)
(***************************************************************************)
C28_ValidityNotRevoked == [](C28_StillAccepted) /\ [][C28_NoInvalidation]_vars

C28_Witness ==
    /\ IssuedUnexpired("generateRefreshToken") /\ Tok.exp = {JWT_REFRESH_EXPIRES_IN}
    /\ now = 1 /\ users[Tok.id] # None
    /\ res.op = "refresh" /\ res.store = "answers" /\ IsResponse(res.r.out, 200)
    /\ res.r.issued.refreshToken # Tok
    /\ VerifyRefreshToken(res.r.issued.refreshToken).ok
    /\ VerifyRefreshToken(Tok).ok
    /\ IsResponse(RefreshHandler([refreshToken |-> Tok], "answers").out, 200)

----------------------------------------------------------------------------
(* Properties of the logger's decode *)

\* the bearer token of the request cannot be verified: its signature matches no secret
Unverifiable(request) ==
    /\ request.headers.authorization.scheme = "Bearer"
    /\ request.headers.authorization.token.form = "jwt"
    /\ request.headers.authorization.token.key \notin {env.JWT_SECRET, env.JWT_REFRESH_SECRET}

\* the same request with other claims in the token
Variants == {ForgedToken(id, role) : id \in {"u1", "u9"}, role \in Roles}
WithToken(request, token) ==
    [request EXCEPT !.headers.authorization = Bearer(token)]

C29_SameDecision ==
    (res'.op = "task" /\ Unverifiable(res'.request)) =>
        \A token \in Variants :
            LET other == WithToken(res'.request, token)
                served == TaskRoute(res'.route, other, res'.id, res'.body, res'.db,
                                    requestCounts)
            IN  /\ served.stage.out = res'.stage.out
                /\ served.stage.user = res'.stage.user
                /\ served.stage.gov = res'.stage.gov
                /\ served.stage.headers = res'.stage.headers
                /\ served.stage.trace = res'.stage.trace
                /\ RateLimitStore(other, requestCounts) = requestCounts'
                /\ served.tasks = tasks'
                /\ served.stage.log.userId = token.id
                /\ served.stage.log.status = res'.stage.log.status

(***************************************************************************)
(* C29: the unverified decode of the Logger has no influence on an access  *)
(* decision: two requests that differ only in the claims of a bearer token *)
(* that cannot be verified get the same response, the same attached        *)
(* identity and leave the same rate-limit counters and stores; the decoded *)
(* user id appears in the log line only.                                   *)
(***************************************************************************)
C29_DecodeWithoutInfluence == [][C29_SameDecision]_vars

C29_Witness ==
    /\ res.op = "task" /\ Unverifiable(res.request)
    /\ res.request.headers.authorization.token.id = "u9"
    /\ res.request.headers.authorization.token.role = "Admin"
    /\ res.stage.log.userId = "u9"
    /\ res.stage.gov.step = "await" /\ requestCounts[res.stage.gov.ip].count = 1
    /\ IsResponse(res.stage.out, 401) /\ res.stage.user = NoUser
    /\ ~ReachedHandler /\ tasks[res.id] = res.before

====
